---- MODULE Spec2Model ----
(***************************************************************************)
(* Model of autocommiter (src/src/extension.ts, modelManager.ts,           *)
(* gitmoji.ts).  Seven specifications share the module:                    *)
(*   Spec         compressToJson, the routine that turns a list of         *)
(*                per-file change descriptors into a bounded JSON summary; *)
(*   SpecInspect  getStagedFiles, analyzeFileChange and buildFileChanges;  *)
(*   SpecFlow     one run of the autocommiter.generateMessage command;     *)
(*   SpecModel    model selection and the refresh of the model list;       *)
(*   SpecGitmoji  getGitmojifiedMessage on its own;                        *)
(*   SpecKey      getOrPromptApiKey, called from the three commands;       *)
(*   SpecRuns     several runs of generateMessage in progress at once.     *)
(* Each specification moves its own variables (SpecFlow also those of the  *)
(* model manager) and leaves the others at their initial values.           *)
(*                                                                         *)
(* Strings are sequences of one-character strings, so that length, slice,  *)
(* replace and concatenation are computed character by character as the    *)
(* JavaScript does.  The characters line feed and carriage return are the  *)
(* symbols LF and CR.                                                      *)
(***************************************************************************)
EXTENDS Integers, Sequences, FiniteSets, TLC

\* ------------------------------------------------------------ characters

Q  == "\""
BS == "\\"
LF == "LF"
CR == "CR"

\* ---------------------------------------------------------------- bounds

\* Longest list of file changes handed to compressToJson.
MaxFiles == 2
\* Budgets run from -NonPositive to MaxBudget, plus the default budget.
NonPositive == 1
MaxBudget == 130
\* A repeated call lowers the budget by 1..MaxDrop.
MaxDrop == 2

\* The default value of the maxLen parameter, also the budget the caller passes.
DefaultMaxLen == 400

Budgets == ((0 - NonPositive)..MaxBudget) \cup {DefaultMaxLen}

\* ---------------------------------------------------------------- inputs

\* FileChange values {file, change}: a counted change (5 characters, cut by
\* the 3- and 1-character tiers), a 40-character diff snippet under a nested
\* path, and a path and a 14-character descriptor holding quotes,
\* backslashes, line feeds and carriage returns (both cut by every tier).
FC1 == [file   |-> <<"a", ".", "t", "s">>,
        change |-> <<"3", "+", "/", "1", "-">>]
FC2 == [file   |-> <<"s", "r", "c", "/", "u", "t", "i", "l", "/", "b", ".", "t", "s">>,
        change |-> <<"d", "i", "f", "f", " ", "-", "-", "g", "i", "t", " ", "a", "/", "s",
                     "r", "c", "/", "u", "t", "i", "l", "/", "b", ".", "t", "s", " ", "b",
                     "/", "s", "r", "c", "/", "u", "t", "i", "l", "/", "b", ".">>]
FC3 == [file   |-> <<"q", Q, "x", BS, "y">>,
        change |-> <<BS, "n", LF, Q, "a", BS, Q, CR, "b", BS, BS, "r", LF, "c">>]
Pool == {FC1, FC2, FC3}

\* Lists of at most MaxFiles file changes, one entry per file.
RECURSIVE ListsUpTo(_)
ListsUpTo(n) ==
  IF n = 0 THEN {<< >>}
  ELSE LET shorter == ListsUpTo(n - 1)
       IN  shorter \cup
           {Append(l, fc) : l \in {x \in shorter : Len(x) = n - 1},
                            fc \in Pool}

Inputs ==
  {l \in ListsUpTo(MaxFiles) :
     \A i, j \in 1..Len(l) : i # j => l[i].file # l[j].file}

\* ------------------------------------------------------ string primitives

\* String.prototype.slice(0, k) for k >= 0.
slice(s, k) == SubSeq(s, 1, IF k < Len(s) THEN k ELSE Len(s))

\* String.prototype.replace(/ch/g, rep): every occurrence of the character
\* ch replaced by the string rep, left to right.
RECURSIVE replaceAll(_, _, _)
replaceAll(s, ch, rep) ==
  IF s = << >> THEN << >>
  ELSE (IF Head(s) = ch THEN rep ELSE <<Head(s)>>) \o replaceAll(Tail(s), ch, rep)

\* Array.prototype.join(',')
RECURSIVE join(_)
join(items) ==
  IF items = << >> THEN << >>
  ELSE IF Len(items) = 1 THEN items[1]
  ELSE items[1] \o <<",">> \o join(Tail(items))

\* ---------------------------------------------------------- compressToJson

\* escapeStr with the quote pass before the backslash pass.
escapeStrQuoteFirst(s) ==
  replaceAll(replaceAll(replaceAll(replaceAll(s, Q, <<BS, Q>>),
                                   BS, <<BS, BS>>),
                        LF, <<BS, "n">>),
             CR, <<BS, "r">>)

\* escapeStr: backslash, then double quote, then line feed, then carriage
\* return, each pass over the result of the one before.
escapeStr(s) ==
  replaceAll(replaceAll(replaceAll(replaceAll(s, BS, <<BS, BS>>),
                                   Q, <<BS, Q>>),
                        LF, <<BS, "n">>),
             CR, <<BS, "r">>)

\* The tiered map functions: maps[0] keeps the change, maps[1..4] slice it.
NumMaps == 5
Cap12 == 12
Cap6 == 6
Cap3 == 3
Cap1 == 1

maps(m, c) ==
  CASE m = 0 -> c
    [] m = 1 -> slice(c, Cap12)
    [] m = 2 -> slice(c, Cap6)
    [] m = 3 -> slice(c, Cap3)
    [] m = 4 -> slice(c, Cap1)

\* The item with the change escaped first and cut afterwards.
itemEscapeFirst(fc, m) ==
  <<"{", Q, "f", Q, ":", Q>> \o escapeStr(fc.file)
    \o <<Q, ",", Q, "c", Q, ":", Q>> \o maps(m, escapeStr(fc.change))
    \o <<Q, "}">>

\* One item of the files array.
item(fc, m) ==
  <<"{", Q, "f", Q, ":", Q>> \o escapeStr(fc.file)
    \o <<Q, ",", Q, "c", Q, ":", Q>> \o escapeStr(maps(m, fc.change))
    \o <<Q, "}">>

\* serialize without the space the template puts after "files":.
serializeNoSpace(arr, m) ==
  <<"{", Q, "f", "i", "l", "e", "s", Q, ":", "[">>
    \o join([i \in 1..Len(arr) |-> item(arr[i], m)])
    \o <<"]", "}">>

\* serialize(arr, maps[m])
serialize(arr, m) ==
  <<"{", Q, "f", "i", "l", "e", "s", Q, ":", " ", "[">>
    \o join([i \in 1..Len(arr) |-> item(arr[i], m)])
    \o <<"]", "}">>

\* fileChanges.slice(0, keep) taken from the wrong end.
keepLast(fcs, keep) == SubSeq(fcs, Len(fcs) - keep + 1, Len(fcs))

\* fileChanges.slice(0, keep)
keepFirst(fcs, keep) == SubSeq(fcs, 1, keep)

\* The fit test with the budget off by one.
fitsOffByOne(s, maxLen) == Len(s) <= maxLen + 1

\* s.length <= maxLen
fits(s, maxLen) == Len(s) <= maxLen

\* The empty object written with the spacing of the serialize template.
stringifyNoFilesSpaced == <<"{", Q, "f", "i", "l", "e", "s", Q, ":", " ", "[", "]", "}">>

\* JSON.stringify({ files: [] })
stringifyNoFiles == <<"{", Q, "f", "i", "l", "e", "s", Q, ":", "[", "]", "}">>

\* The two loops nested the other way round: kept count outside, tier inside.
RECURSIVE searchKeepOuter(_, _, _, _)
searchKeepOuter(fcs, maxLen, m, keep) ==
  IF keep <= 0 THEN [m |-> NumMaps, keep |-> 0]
  ELSE IF m >= NumMaps THEN searchKeepOuter(fcs, maxLen, 0, keep - 1)
  ELSE IF fits(serialize(keepFirst(fcs, keep), m), maxLen)
       THEN [m |-> m, keep |-> keep]
       ELSE searchKeepOuter(fcs, maxLen, m + 1, keep)

\* The two nested loops: the position (m, keep) of the first candidate that
\* fits, or m = NumMaps when both loops run out.
RECURSIVE search(_, _, _, _)
search(fcs, maxLen, m, keep) ==
  IF m >= NumMaps THEN [m |-> NumMaps, keep |-> 0]
  ELSE IF keep <= 0 THEN search(fcs, maxLen, m + 1, Len(fcs))
  ELSE IF fits(serialize(keepFirst(fcs, keep), m), maxLen)
       THEN [m |-> m, keep |-> keep]
       ELSE search(fcs, maxLen, m, keep - 1)

\* One call of compressToJson: the string returned (s), the return statement
\* taken (site) and, for the return inside the loops, the loop indices.
compressToJsonCall(fcs, maxLen) ==
  IF Len(fcs) = 0
  THEN [s |-> stringifyNoFiles, site |-> "empty", m |-> NumMaps, keep |-> 0]
  ELSE LET hit == search(fcs, maxLen, 0, Len(fcs))
       IN  IF hit.m < NumMaps
           THEN [s    |-> serialize(keepFirst(fcs, hit.keep), hit.m),
                 site |-> "fit", m |-> hit.m, keep |-> hit.keep]
           ELSE [s |-> stringifyNoFiles, site |-> "lastResort",
                 m |-> NumMaps, keep |-> 0]

compressToJson(fcs, maxLen) == compressToJsonCall(fcs, maxLen).s

\* ------------------------------------------------------------------ state

VARIABLES
  fileChanges,  \* the list the caller holds
  pc,           \* "idle" before the first call, "returned" after a call
  maxLen,       \* the budget of the latest call
  ret,          \* what the latest call returned (compressToJsonCall)
  prev          \* the call before the latest: [maxLen, ret], or NoCall

compressVars == <<fileChanges, pc, maxLen, ret, prev>>

\* buildFileChanges (SpecInspect)
VARIABLES
  iPc,      \* "start", "listing" (files known, loop running), "done", "threw"
  files,    \* what getStagedFiles returned
  changes,  \* the array `out` that buildFileChanges fills
  listed,   \* what git diff --staged --name-only answered
  seen      \* per analysed file, what its two git queries answered

inspectVars == <<iPc, files, listed, changes, seen>>

\* the generateMessage command (SpecFlow)
VARIABLES
  fPc,              \* "idle", then per repository "add", "list", "ide", "cli",
                    \* "api", "final", "push", and "done" when the run is over
  repo,             \* index of the repository the for loop is at
  message,          \* the local `message` ('' and undefined are both << >>)
  wasCliGenerated,  \* the local `wasCliGenerated`
  results,          \* the array `results`
  log,              \* what the current turn of the loop has done so far
  inputBox,         \* per repository, repo.inputBox.value
  enableGitmoji,    \* the setting autocommiter.enableGitmoji
  notes             \* the notifications shown

flowVars ==
  <<fPc, repo, message, wasCliGenerated, results, log, inputBox,
    enableGitmoji, notes>>

\* the model manager (SpecModel, and the API fallback of SpecFlow)
VARIABLES
  selectedModel,    \* the setting autocommiter.selectedModel, "" when not set
  cachedModels,     \* workspaceState autocommiter.cachedModels
  mRet,             \* the last call of getModelForApi and what it returned
  mFetch            \* the last call of refreshModelList and what it fetched

modelVars == <<selectedModel, cachedModels, mRet, mFetch>>

\* getGitmojifiedMessage on its own (SpecGitmoji)
VARIABLES
  gPc,       \* "idle" before the call, "returned" after it
  gMessage,  \* the commit message handed in
  gOut       \* what findBestGitmoji found and the message returned

gitmojiVars == <<gPc, gMessage, gOut>>

\* getOrPromptApiKey (SpecKey)
VARIABLES
  storedKey,  \* the secret autocommiter.apiKey, "" when there is none
  kRet        \* the last call of getOrPromptApiKey and what it returned

keyVars == <<storedKey, kRet>>

\* several runs of generateMessage at once (SpecRuns)
VARIABLES
  rPc,    \* per run, where its handler is
  rRepo   \* per run, the repository its loop is at

runsVars == <<rPc, rRepo>>

restVars == <<gitmojiVars, keyVars, runsVars>>

vars == <<compressVars, inspectVars, flowVars, modelVars, restVars>>

NoCall == [maxLen |-> 0, ret |-> [s |-> << >>, site |-> "none", m |-> NumMaps, keep |-> 0]]

\* The variables of buildFileChanges before it is called.
InspectIdle ==
  /\ iPc = "start"
  /\ files = << >>
  /\ listed = [threw |-> FALSE, stdout |-> << >>]
  /\ changes = << >>
  /\ seen = << >>

\* The variables of compressToJson's caller before the first call.
CompressIdle ==
  /\ pc = "idle"
  /\ maxLen = 0
  /\ ret = NoCall.ret
  /\ prev = NoCall

NumRepos == 2
Repos == 1..NumRepos

FlowIdle ==
  /\ fPc = "idle"
  /\ repo = 0
  /\ message = << >>
  /\ wasCliGenerated = FALSE
  /\ results = << >>
  /\ log = << >>
  /\ inputBox = [r \in Repos |-> << >>]
  /\ enableGitmoji = FALSE
  /\ notes = {}

NoCache == <<"undefined">>
NoReturn == [called |-> FALSE, force |-> FALSE, shown |-> FALSE, value |-> "",
             before |-> "", picked |-> "", choice |-> 0]

NoOut == [best |-> 0, text |-> << >>]

GitmojiIdle ==
  /\ gPc = "idle"
  /\ gMessage = << >>
  /\ gOut = NoOut

NoKeyCall ==
  [called |-> FALSE, site |-> "", answer |-> [threw |-> TRUE, stdout |-> << >>],
   cli |-> << >>, read |-> FALSE, existing |-> << >>, before |-> << >>,
   allowed |-> FALSE, prompted |-> FALSE, entered |-> << >>, value |-> << >>]

KeyIdle ==
  /\ storedKey = << >>
  /\ kRet = NoKeyCall

MaxRuns == 2
Runs == 1..MaxRuns

RunsIdle ==
  /\ rPc = [r \in Runs |-> "idle"]
  /\ rRepo = [r \in Runs |-> 0]

RestIdle ==
  /\ GitmojiIdle
  /\ KeyIdle
  /\ RunsIdle

NoFetch == [called |-> FALSE, kind |-> "", before |-> NoCache, fresh |-> << >>]

ModelIdle ==
  /\ selectedModel = ""
  /\ cachedModels = NoCache
  /\ mRet = NoReturn
  /\ mFetch = NoFetch

Init ==
  /\ fileChanges \in Inputs
  /\ CompressIdle
  /\ InspectIdle
  /\ FlowIdle
  /\ ModelIdle
  /\ RestIdle

\* The caller's first call, with any budget.
Call(b) ==
  /\ pc = "idle"
  /\ pc' = "returned"
  /\ maxLen' = b
  /\ ret' = compressToJsonCall(fileChanges, b)
  /\ UNCHANGED <<fileChanges, prev>>
  /\ UNCHANGED <<inspectVars, flowVars, modelVars, restVars>>

\* A further call on the same list with the budget lowered by d.
CallLower(d) ==
  /\ pc = "returned"
  /\ maxLen - d \in Budgets
  /\ maxLen' = maxLen - d
  /\ ret' = compressToJsonCall(fileChanges, maxLen - d)
  /\ prev' = [maxLen |-> maxLen, ret |-> ret]
  /\ UNCHANGED <<fileChanges, pc>>
  /\ UNCHANGED <<inspectVars, flowVars, modelVars, restVars>>

Next ==
  \/ \E b \in Budgets : Call(b)
  \/ \E d \in 1..MaxDrop : CallLower(d)

Spec == Init /\ [][Next]_vars

\* ------------------------------------------------ reading the output back

\* A standard JSON parser, restricted to the documents of the shape
\* { "files": [ { "f": <string>, "c": <string> }, ... ] }.  It is used only
\* to state the claims about the returned string.

ParseFail == [ok |-> FALSE, val |-> << >>, next |-> 0]

\* Characters a JSON string may not hold unescaped.
ControlChars == {LF, CR, "TAB"}

\* The string literal whose opening quote is before position i.
RECURSIVE ParseString(_, _, _)
ParseString(s, i, acc) ==
  IF i > Len(s) THEN ParseFail
  ELSE IF s[i] = Q THEN [ok |-> TRUE, val |-> acc, next |-> i + 1]
  ELSE IF s[i] \in ControlChars THEN ParseFail
  ELSE IF s[i] # BS THEN ParseString(s, i + 1, Append(acc, s[i]))
  ELSE IF i + 1 > Len(s) THEN ParseFail
  ELSE LET e == s[i + 1]
       IN  CASE e = Q   -> ParseString(s, i + 2, Append(acc, Q))
             [] e = BS  -> ParseString(s, i + 2, Append(acc, BS))
             [] e = "/" -> ParseString(s, i + 2, Append(acc, "/"))
             [] e = "n" -> ParseString(s, i + 2, Append(acc, LF))
             [] e = "r" -> ParseString(s, i + 2, Append(acc, CR))
             [] e = "t" -> ParseString(s, i + 2, Append(acc, "TAB"))
             [] OTHER   -> ParseFail

\* Does the text lit stand at position i of s?
At(s, i, lit) ==
  /\ i + Len(lit) - 1 <= Len(s)
  /\ SubSeq(s, i, i + Len(lit) - 1) = lit

RECURSIVE SkipSpace(_, _)
SkipSpace(s, i) == IF i <= Len(s) /\ s[i] = " " THEN SkipSpace(s, i + 1) ELSE i

\* One object {"f":<string>,"c":<string>} at position i.
ParseEntry(s, i) ==
  IF ~At(s, i, <<"{", Q, "f", Q, ":", Q>>) THEN ParseFail
  ELSE LET f == ParseString(s, i + 6, << >>)
       IN  IF ~f.ok \/ ~At(s, f.next, <<",", Q, "c", Q, ":", Q>>) THEN ParseFail
           ELSE LET c == ParseString(s, f.next + 6, << >>)
                IN  IF ~c.ok \/ ~At(s, c.next, <<"}">>) THEN ParseFail
                    ELSE [ok |-> TRUE, val |-> [f |-> f.val, c |-> c.val],
                          next |-> c.next + 1]

\* The entries of the array after its first, up to the closing bracket.
RECURSIVE ParseEntries(_, _, _)
ParseEntries(s, i, acc) ==
  LET e == ParseEntry(s, i)
  IN  IF ~e.ok THEN ParseFail
      ELSE IF At(s, e.next, <<",">>)
           THEN ParseEntries(s, e.next + 1, Append(acc, e.val))
      ELSE IF At(s, e.next, <<"]">>)
           THEN [ok |-> TRUE, val |-> Append(acc, e.val), next |-> e.next + 1]
      ELSE ParseFail

\* JSON.parse(s).files, or ok = FALSE when s is not such a document.
JsonParse(s) ==
  IF ~At(s, 1, <<"{", Q, "f", "i", "l", "e", "s", Q, ":">>) THEN ParseFail
  ELSE LET i == SkipSpace(s, 10)
       IN  IF ~At(s, i, <<"[">>) THEN ParseFail
           ELSE LET arr == IF At(s, i + 1, <<"]">>)
                           THEN [ok |-> TRUE, val |-> << >>, next |-> i + 2]
                           ELSE ParseEntries(s, i + 1, << >>)
                IN  IF arr.ok /\ At(s, arr.next, <<"}">>) /\ arr.next = Len(s)
                    THEN arr
                    ELSE ParseFail

\* The files array of the latest output.
OutFiles == JsonParse(ret.s).val

\* The final '/'-separated segment of a path.
RECURSIVE Basename(_)
Basename(p) ==
  IF \E i \in 1..Len(p) : p[i] = "/"
  THEN Basename(Tail(p))
  ELSE p

\* The guaranteed-fallback form: one entry, the first file's basename, "mod".
MinimalForm(fcs) == <<[f |-> Basename(fcs[1].file), c |-> <<"m", "o", "d">>]>>

\* Does any (tier, kept count >= 1) candidate fit the budget?
SomeCandidateFits(fcs, b) ==
  \E m \in 0..(NumMaps - 1), k \in 1..Len(fcs) :
    Len(serialize(SubSeq(fcs, 1, k), m)) <= b

Returned == pc = "returned"

\* The text {"files": [{"f":"<file>","c":"<change>"},...]} of a whole list,
\* written out entry by entry with each character of a path or descriptor
\* escaped on its own by the JSON rule for that character.
EscChar(ch) ==
  CASE ch = Q  -> <<BS, Q>>
    [] ch = BS -> <<BS, BS>>
    [] ch = LF -> <<BS, "n">>
    [] ch = CR -> <<BS, "r">>
    [] OTHER   -> <<ch>>

RECURSIVE EscText(_)
EscText(s) == IF s = << >> THEN << >> ELSE EscChar(Head(s)) \o EscText(Tail(s))

RECURSIVE EntriesText(_)
EntriesText(fcs) ==
  IF fcs = << >> THEN << >>
  ELSE (IF Len(fcs) > 1 THEN EntriesText(SubSeq(fcs, 1, Len(fcs) - 1)) \o <<",">>
        ELSE << >>)
       \o <<"{", Q, "f", Q, ":", Q>> \o EscText(fcs[Len(fcs)].file)
       \o <<Q, ",">> \o <<Q, "c", Q, ":", Q>> \o EscText(fcs[Len(fcs)].change)
       \o <<Q, "}">>

FullLiteral(fcs) ==
  <<"{", Q, "f", "i", "l", "e", "s", Q, ":", " ", "[">> \o EntriesText(fcs) \o <<"]", "}">>

\* The entries a list yields with every descriptor cut to at most cap
\* characters (cap < 0: not cut).
Capped(fcs, cap) ==
  [i \in 1..Len(fcs) |->
     [f |-> fcs[i].file,
      c |-> IF cap < 0 \/ Len(fcs[i].change) <= cap THEN fcs[i].change
            ELSE SubSeq(fcs[i].change, 1, cap)]]

\* The caps of the five tiers, least aggressive first (-1: uncut).
TierCap(m) ==
  CASE m = 0 -> 0 - 1 [] m = 1 -> 12 [] m = 2 -> 6 [] m = 3 -> 3 [] m = 4 -> 1

\* Does the whole list fit the budget with descriptors cut at tier m?
WholeListFitsAt(fcs, b, m) == Len(serialize(fcs, m)) <= b

NonEmptyInput == Returned /\ fileChanges # << >>

\* ---------------------------------------------------------------- claims

\* C1: for every non-empty list and every positive maxLen, the JSON returned
\* by compressToJson has a files array with at least one entry.
C1_FilesNeverEmpty ==
  (NonEmptyInput /\ maxLen > 0) =>
     (JsonParse(ret.s).ok /\ Len(OutFiles) >= 1)

\* C2: when no (tier, kept count) candidate fits maxLen, compressToJson
\* returns exactly one entry: the basename of the first file, with "mod".
C2_FallbackIsMinimalForm ==
  (NonEmptyInput /\ ~SomeCandidateFits(fileChanges, maxLen)) =>
     (JsonParse(ret.s).ok /\ OutFiles = MinimalForm(fileChanges))

\* C3: whenever some (tier, kept count >= 1) candidate has length <= maxLen,
\* the returned string has length <= maxLen.
C3_WithinBudgetWhenAchievable ==
  (NonEmptyInput /\ SomeCandidateFits(fileChanges, maxLen)) =>
     Len(ret.s) <= maxLen

C3_Witness ==
  /\ NonEmptyInput
  /\ SomeCandidateFits(fileChanges, maxLen)
  /\ ~WholeListFitsAt(fileChanges, maxLen, 0)
  /\ Len(ret.s) = maxLen

\* C4: when the whole list with uncut descriptors serializes within maxLen,
\* the returned string is exactly that serialization, every entry in input
\* order in the form {"files": [{"f":"<file>","c":"<change>"},...]}; the
\* list [{a.ts, 3+/1-}] with budget 400 gives
\* {"files": [{"f":"a.ts","c":"3+/1-"}]}.
C4_FullSerializationWhenItFits ==
  /\ (NonEmptyInput /\ Len(FullLiteral(fileChanges)) <= maxLen) =>
        ret.s = FullLiteral(fileChanges)
  /\ (Returned /\ fileChanges = <<FC1>> /\ maxLen = DefaultMaxLen) =>
        ret.s = <<"{", Q, "f", "i", "l", "e", "s", Q, ":", " ", "[", "{", Q, "f", Q,
                  ":", Q, "a", ".", "t", "s", Q, ",", Q, "c", Q, ":", Q, "3", "+",
                  "/", "1", "-", Q, "}", "]", "}">>

C4_Witness ==
  /\ Returned
  /\ Len(fileChanges) = MaxFiles
  /\ maxLen = Len(FullLiteral(fileChanges))
  /\ ret.s = FullLiteral(fileChanges)

\* C5: if the whole list fits maxLen at some tier, no file is dropped: the
\* output holds every input entry, descriptors cut at the least aggressive
\* tier at which the whole list fits.
C5_NoFileDroppedWhenWholeListFits ==
  \A m \in 0..(NumMaps - 1) :
    ( /\ NonEmptyInput
      /\ WholeListFitsAt(fileChanges, maxLen, m)
      /\ \A l \in 0..(m - 1) : ~WholeListFitsAt(fileChanges, maxLen, l) )
    => (JsonParse(ret.s).ok /\ OutFiles = Capped(fileChanges, TierCap(m)))

\* The files array of the output of the call before the latest.
PrevFiles == JsonParse(prev.ret.s).val

TwoCalls == prev.ret.site # "none"

C7_OutputFilesArePrefix ==
  (Returned /\ ret.site = "fit") =>
     /\ JsonParse(ret.s).ok
     /\ Len(OutFiles) \in 1..Len(fileChanges)
     /\ \A i \in 1..Len(OutFiles) : OutFiles[i].f = fileChanges[i].file

C7_Witness ==
  /\ Returned
  /\ ret.site = "fit"
  /\ Len(fileChanges) = MaxFiles
  /\ Len(OutFiles) < Len(fileChanges)
  /\ OutFiles[1].f = fileChanges[1].file

\* C8: compressToJson of the empty list returns exactly {"files":[]} for any
\* budget, also one shorter than that text or not positive.
C8_EmptyListGivesEmptyFiles ==
  (Returned /\ fileChanges = << >>) =>
     ret.s = <<"{", Q, "f", "i", "l", "e", "s", Q, ":", "[", "]", "}">>

C8_Witness ==
  /\ Returned
  /\ fileChanges = << >>
  /\ maxLen < 0
  /\ Len(ret.s) > maxLen

\* C9: a non-positive maxLen with a non-empty list yields the minimal form:
\* one entry, the basename of the first file, descriptor "mod".
C9_NonPositiveBudgetGivesMinimalForm ==
  (NonEmptyInput /\ maxLen <= 0) =>
     (JsonParse(ret.s).ok /\ OutFiles = MinimalForm(fileChanges))

\* Does the string hold a double quote, a backslash or a line break?
HasSpecial(s) == \E i \in 1..Len(s) : s[i] \in {Q, BS, LF, CR}

\* C10: with a budget that holds the full serialization, a standard JSON
\* parser reads back from the output the original path and descriptor of
\* every entry, also those holding double quotes, backslashes or newlines.
C10_EscapingRoundTrips ==
  (NonEmptyInput /\ Len(FullLiteral(fileChanges)) <= maxLen) =>
     /\ JsonParse(ret.s).ok
     /\ Len(OutFiles) = Len(fileChanges)
     /\ \A i \in 1..Len(fileChanges) :
          /\ OutFiles[i].f = fileChanges[i].file
          /\ OutFiles[i].c = fileChanges[i].change

C10_Witness ==
  /\ Returned
  /\ \E i \in 1..Len(fileChanges) :
       /\ HasSpecial(fileChanges[i].file)
       /\ HasSpecial(fileChanges[i].change)
       /\ Len(OutFiles) >= i
       /\ OutFiles[i].c = fileChanges[i].change
  /\ Len(FullLiteral(fileChanges)) <= maxLen

\* ------------------------------------------------- the diff inspector

TAB == "TAB"

\* The characters the regular expression \s and String.prototype.trim treat as
\* white space, among those of the model.
WhiteSpace == {" ", TAB, LF, CR}

\* String.prototype.trim
RECURSIVE trimStart(_)
trimStart(s) ==
  IF s # << >> /\ Head(s) \in WhiteSpace THEN trimStart(Tail(s)) ELSE s

RECURSIVE trimEnd(_)
trimEnd(s) ==
  IF s # << >> /\ s[Len(s)] \in WhiteSpace
  THEN trimEnd(SubSeq(s, 1, Len(s) - 1))
  ELSE s

\* Nothing trimmed.
trimNone(s) == s

trim(s) == trimEnd(trimStart(s))

\* String.prototype.split(/\r?\n/): a line feed, with the carriage return
\* before it if there is one, ends a piece.
RECURSIVE splitLinesFrom(_, _, _, _)
splitLinesFrom(s, i, cur, acc) ==
  IF i > Len(s) THEN Append(acc, cur)
  ELSE IF s[i] = LF
       THEN splitLinesFrom(s, i + 1, << >>,
              Append(acc, IF cur # << >> /\ cur[Len(cur)] = CR
                          THEN SubSeq(cur, 1, Len(cur) - 1) ELSE cur))
       ELSE splitLinesFrom(s, i + 1, Append(cur, s[i]), acc)

splitLines(s) == splitLinesFrom(s, 1, << >>, << >>)

\* String.prototype.split(/\t/)
RECURSIVE splitTabsFrom(_, _, _, _)
splitTabsFrom(s, i, cur, acc) ==
  IF i > Len(s) THEN Append(acc, cur)
  ELSE IF s[i] = TAB THEN splitTabsFrom(s, i + 1, << >>, Append(acc, cur))
       ELSE splitTabsFrom(s, i + 1, Append(cur, s[i]), acc)

splitTabs(s) == splitTabsFrom(s, 1, << >>, << >>)

\* Array.prototype.map(s => s.trim()).filter(Boolean)
RECURSIVE trimmedNonEmpty(_)
trimmedNonEmpty(ls) ==
  IF ls = << >> THEN << >>
  ELSE LET l == trim(Head(ls))
       IN  (IF l = << >> THEN << >> ELSE <<l>>) \o trimmedNonEmpty(Tail(ls))

\* White space left as it is.
collapseSpaceNone(s) == s

\* String.prototype.replace(/\s+/g, ' '): every run of white space becomes
\* one space.
RECURSIVE collapseSpace(_)
collapseSpace(s) ==
  IF s = << >> THEN << >>
  ELSE IF Head(s) \in WhiteSpace
       THEN <<" ">> \o collapseSpace(trimStart(s))
       ELSE <<Head(s)>> \o collapseSpace(Tail(s))

Digits == <<"0", "1", "2", "3", "4", "5", "6", "7", "8", "9">>

IsDigit(ch) == \E d \in 1..Len(Digits) : Digits[d] = ch

DigitValue(ch) == (CHOOSE d \in 1..Len(Digits) : Digits[d] = ch) - 1

\* parseInt(s, 10) || 0 for a field without a sign: the number its leading
\* digits spell, 0 (from NaN) when it has none.
RECURSIVE parseDigits(_, _)
parseDigits(s, acc) ==
  IF s # << >> /\ IsDigit(Head(s))
  THEN parseDigits(Tail(s), acc * 10 + DigitValue(Head(s)))
  ELSE acc

parseIntOr0(s) == parseDigits(trimStart(s), 0)

\* A count as the template literal prints it.
RECURSIVE numberToString(_)
numberToString(n) ==
  IF n < 10 THEN <<Digits[n + 1]>>
  ELSE numberToString(n \div 10) \o <<Digits[(n % 10) + 1]>>

\* What one git query answers: it fails (exec rejects), or it prints stdout.
Threw == [threw |-> TRUE, stdout |-> << >>]
Printed(s) == [threw |-> FALSE, stdout |-> s]

\* runGit: String(stdout || '').trim(), for a query that did not fail.
runGit(answer) == trim(answer.stdout)

\* getStagedFiles, given the answer of git diff --staged --name-only.
getStagedFiles(answer) ==
  IF answer.threw THEN [threw |-> TRUE, value |-> << >>]
  ELSE LET out == runGit(answer)
       IN  IF out = << >> THEN [threw |-> FALSE, value |-> << >>]
           ELSE [threw |-> FALSE, value |-> trimmedNonEmpty(splitLines(out))]

SnippetLen == 40

\* The body of analyzeFileChange's try block, given the answers of the
\* --numstat query and of the --unified=0 query (asked only when reached).
analyzeTry(numstat, hunksAnswer) ==
  IF numstat.threw THEN [threw |-> TRUE, value |-> << >>]
  ELSE
  LET diff == runGit(numstat)
  IN  IF diff = << >>
      THEN [threw |-> FALSE,
            value |-> <<"u", "n", "c", "h", "a", "n", "g", "e", "d">>]
      ELSE
      LET parts == splitTabs(splitLines(diff)[1])
      IN  IF Len(parts) >= 3
          THEN LET a == IF parts[1] = <<"-">> THEN 0 ELSE parseIntOr0(parts[1])
                   r == IF parts[2] = <<"-">> THEN 0 ELSE parseIntOr0(parts[2])
               IN  [threw |-> FALSE,
                    value |-> numberToString(a) \o <<"+", "/">>
                              \o numberToString(r) \o <<"-">>]
          ELSE IF hunksAnswer.threw THEN [threw |-> TRUE, value |-> << >>]
          ELSE
          LET hunks == runGit(hunksAnswer)
          IN  IF hunks = << >>
              THEN [threw |-> FALSE, value |-> <<"m", "o", "d">>]
              ELSE LET lines == trimmedNonEmpty(splitLines(hunks))
                       first == IF lines = << >> THEN <<"m", "o", "d">>
                                ELSE lines[1]
                   IN  [threw |-> FALSE,
                        value |-> collapseSpace(slice(first, SnippetLen))]

\* analyzeFileChange without its catch: a failing query propagates.
analyzeFileChangeNoCatch(numstat, hunksAnswer) == analyzeTry(numstat, hunksAnswer)

\* analyzeFileChange: the try block, and 'err' from the catch.
analyzeFileChange(numstat, hunksAnswer) ==
  LET r == analyzeTry(numstat, hunksAnswer)
  IN  IF r.threw THEN [threw |-> FALSE, value |-> <<"e", "r", "r">>] ELSE r

\* Is the --unified=0 query reached, given the --numstat answer?
AsksHunks(numstat) ==
  /\ ~numstat.threw
  /\ runGit(numstat) # << >>
  /\ Len(splitTabs(splitLines(runGit(numstat))[1])) < 3

NotAsked == [threw |-> FALSE, stdout |-> <<"(not asked)">>]

\* Answers of git diff --staged --name-only.
LS1 == <<>>
LS2 == <<" ", LF>>
LS3 == <<"a", ".", "t", "s", LF>>
LS4 == <<"a", ".", "t", "s", CR, LF, "s", "r", "c", "/", "b", " ", "c",
         ".", "t", "s", " ", LF, LF, "i", "m", "g", ".", "p", "n", "g", LF>>
ListAnswers == {Threw, Printed(LS1), Printed(LS2), Printed(LS3), Printed(LS4)}

\* Answers of git diff --staged --numstat -- <file>: nothing, counts, the
\* dashes git prints for a binary file, counts that are not plain numbers,
\* and a line without tab-separated fields.
NS1 == <<>>
NS2 == <<"3", TAB, "1", TAB, "a", ".", "t", "s", LF>>
NS3 == <<"-", TAB, "-", TAB, "i", "m", "g", ".", "p", "n", "g", LF>>
NS4 == <<"0", "0", "7", TAB, "x", TAB, "s", "r", "c", "/", "b", " ", "c",
         ".", "t", "s">>
NS5 == <<"a", ".", "t", "s", " ", "|", " ", "B", "i", "n">>
NumstatAnswers ==
  {Threw, Printed(NS1), Printed(NS2), Printed(NS3), Printed(NS4), Printed(NS5)}

\* Answers of git diff --staged --unified=0 -- <file>: nothing, white space
\* only, a short first line, and a first line longer than 40 characters with
\* runs of white space in it.
HK1 == <<>>
HK2 == <<" ", LF, TAB, LF>>
HK3 == <<"d", "i", "f", "f", " ", "-", "-", "g", "i", "t", " ", "a", "/",
         "a", ".", "t", "s", " ", "b", "/", "a", ".", "t", "s", LF, "@",
         "@", " ", "-", "1", " ", "+", "1", " ", "@", "@", LF>>
HK4 == <<LF, TAB, "@", "@", " ", " ", " ", "-", "1", ",", "2", TAB, TAB,
         "+", "1", ",", "3", " ", " ", " ", "@", "@", " ", " ", " ", "e",
         "x", "p", "o", "r", "t", " ", " ", " ", "f", "u", "n", "c", "t",
         "i", "o", "n", " ", " ", " ", "f", "(", "x", ")", " ", " ", " ",
         "{", CR, LF, "+", "x", LF>>
HunkAnswers == {Threw, Printed(HK1), Printed(HK2), Printed(HK3), Printed(HK4)}

\* buildFileChanges: await getStagedFiles(cwd).
ListStaged(answer) ==
  /\ iPc = "start"
  /\ LET r == getStagedFiles(answer)
     IN  /\ iPc' = IF r.threw THEN "threw" ELSE "listing"
         /\ files' = r.value
  /\ listed' = answer
  /\ UNCHANGED <<changes, seen>>
  /\ UNCHANGED <<compressVars, flowVars, modelVars, restVars>>

\* buildFileChanges: one turn of the loop, await analyzeFileChange(cwd, f)
\* and out.push.
AnalyzeNext(numstat, hunksAnswer) ==
  /\ iPc = "listing"
  /\ Len(changes) < Len(files)
  /\ LET f == files[Len(changes) + 1]
         r == analyzeFileChange(numstat, hunksAnswer)
     IN  IF r.threw
         THEN /\ iPc' = "threw"
              /\ UNCHANGED changes
         ELSE /\ iPc' = iPc
              /\ changes' = Append(changes, [file |-> f, change |-> r.value])
  /\ seen' = Append(seen, [numstat |-> numstat, hunks |-> hunksAnswer])
  /\ UNCHANGED <<files, listed>>
  /\ UNCHANGED <<compressVars, flowVars, modelVars, restVars>>

\* buildFileChanges: return out.
ReturnChanges ==
  /\ iPc = "listing"
  /\ Len(changes) = Len(files)
  /\ iPc' = "done"
  /\ UNCHANGED <<files, listed, changes, seen>>
  /\ UNCHANGED <<compressVars, flowVars, modelVars, restVars>>

InitInspect ==
  /\ fileChanges = << >>
  /\ CompressIdle
  /\ InspectIdle
  /\ FlowIdle
  /\ ModelIdle
  /\ RestIdle

NextInspect ==
  \/ \E answer \in ListAnswers : ListStaged(answer)
  \/ \E numstat \in NumstatAnswers :
       \E hunksAnswer \in (IF AsksHunks(numstat) THEN HunkAnswers ELSE {NotAsked}) :
         AnalyzeNext(numstat, hunksAnswer)
  \/ ReturnChanges

SpecInspect == InitInspect /\ [][NextInspect]_vars

\* ------------------------------------------------- claims: the inspector

ErrToken == <<"e", "r", "r">>
ModToken == <<"m", "o", "d">>
UnchangedToken == <<"u", "n", "c", "h", "a", "n", "g", "e", "d">>

\* One of the queries made for an analysed file failed.
QueryFailed(s) ==
  \/ s.numstat.threw
  \/ AsksHunks(s.numstat) /\ s.hunks.threw

\* <digits>+/<digits>-
IsCountForm(d) ==
  \E k \in 2..(Len(d) - 3) :
    /\ \A i \in 1..(k - 1) : IsDigit(d[i])
    /\ d[k] = "+"
    /\ d[k + 1] = "/"
    /\ \A i \in (k + 2)..(Len(d) - 1) : IsDigit(d[i])
    /\ d[Len(d)] = "-"

\* At most 40 characters, no white space but single spaces inside.
IsSnippet(d) ==
  /\ d # << >>
  /\ Len(d) <= SnippetLen
  /\ \A i \in 1..Len(d) : d[i] \notin {TAB, LF, CR}
  /\ \A i \in 1..(Len(d) - 1) : ~(d[i] = " " /\ d[i + 1] = " ")

Blank(s) == \A i \in 1..Len(s) : s[i] \in WhiteSpace

\* The queries made for a file succeeded and the last of them printed nothing
\* but white space: the --numstat query, or the --unified=0 query made after a
\* --numstat line without counts.
NoDiffContent(s) ==
  /\ ~QueryFailed(s)
  /\ \/ Blank(s.numstat.stdout)
     \/ AsksHunks(s.numstat) /\ Blank(s.hunks.stdout)

\* The --numstat query printed something, but no line counts: fewer than
\* three fields, or the dashes of a binary file.
CountsUnavailable(s) ==
  /\ ~s.numstat.threw
  /\ runGit(s.numstat) # << >>
  /\ LET parts == splitTabs(splitLines(runGit(s.numstat))[1])
     IN  \/ Len(parts) < 3
         \/ parts[1] = <<"-">>
         \/ parts[2] = <<"-">>

\* The first non-empty line of the --unified=0 output, trimmed.
FirstHunkLine(s) == trimmedNonEmpty(splitLines(s.hunks.stdout))[1]

HunkContent(s) ==
  /\ AsksHunks(s.numstat)
  /\ ~s.hunks.threw
  /\ trim(s.hunks.stdout) # << >>

Analysed == 1..Len(changes)

\* C11: buildFileChanges returns exactly one entry per staged file, in the
\* order the files were listed; a file whose diff query fails gets "err",
\* every other file gets a descriptor of its own, and the failure of a diff
\* query never makes buildFileChanges itself fail.
C11_OneEntryPerStagedFile ==
  /\ iPc = "threw" => listed.threw /\ changes = << >> /\ seen = << >>
  /\ Len(changes) = Len(seen)
  /\ Len(changes) <= Len(files)
  /\ iPc = "done" => Len(changes) = Len(files)
  /\ \A i \in Analysed :
       /\ changes[i].file = files[i]
       /\ QueryFailed(seen[i]) <=> changes[i].change = ErrToken
  /\ listed = Printed(LS4) /\ iPc # "start" =>
       files = << <<"a", ".", "t", "s">>,
                  <<"s", "r", "c", "/", "b", " ", "c", ".", "t", "s">>,
                  <<"i", "m", "g", ".", "p", "n", "g">> >>

C11_Witness ==
  /\ iPc = "done"
  /\ Len(changes) = 3
  /\ QueryFailed(seen[2])
  /\ ~QueryFailed(seen[1])
  /\ ~QueryFailed(seen[3])
  /\ changes[3].change # changes[1].change

\* C13 as stated: when the diff queries succeed but print no diff content,
\* the descriptor is "mod"; and every descriptor is a count form, a snippet
\* of at most 40 characters, "mod" or "err".
C13_NoContentGivesMod ==
  \A i \in Analysed :
    /\ NoDiffContent(seen[i]) => changes[i].change = ModToken
    /\ \/ IsCountForm(changes[i].change)
       \/ HunkContent(seen[i]) /\ IsSnippet(changes[i].change)
       \/ changes[i].change \in {ModToken, ErrToken}

\* C13, amended: when the --numstat query succeeds and prints nothing the
\* descriptor is "unchanged"; it is "mod" when the --numstat line has fewer
\* than three fields and the --unified=0 query succeeds and prints nothing;
\* and every descriptor is a count form, a snippet of at most 40 characters,
\* "mod", "unchanged" or "err".
C13_NoContentGivesUnchangedOrMod ==
  \A i \in Analysed :
    /\ NoDiffContent(seen[i]) =>
         changes[i].change =
           IF AsksHunks(seen[i].numstat) THEN ModToken ELSE UnchangedToken
    /\ changes[i].change = UnchangedToken =>
         ~seen[i].numstat.threw /\ trim(seen[i].numstat.stdout) = << >>
    /\ \/ IsCountForm(changes[i].change)
       \/ HunkContent(seen[i]) /\ IsSnippet(changes[i].change)
       \/ changes[i].change \in {ModToken, UnchangedToken, ErrToken}

C13_Witness ==
  \E i, j, k \in Analysed :
    /\ NoDiffContent(seen[i]) /\ changes[i].change = UnchangedToken
    /\ NoDiffContent(seen[j]) /\ changes[j].change = ModToken
    /\ seen[k].hunks = Printed(HK4) /\ IsSnippet(changes[k].change)

\* C14 as stated: when line counts are unavailable but staged diff content
\* exists, the descriptor is the first non-empty line of the diff, trimmed,
\* its white space collapsed, and then truncated to 40 characters.
C14_SnippetCollapsedThenTruncated ==
  \A i \in Analysed :
    CountsUnavailable(seen[i]) /\ (AsksHunks(seen[i].numstat) => HunkContent(seen[i])) =>
      /\ AsksHunks(seen[i].numstat)
      /\ changes[i].change =
           slice(collapseSpace(FirstHunkLine(seen[i])), SnippetLen)

\* C14, amended: when the first --numstat line has fewer than three
\* tab-separated fields and the --unified=0 query prints something, the
\* descriptor is the first non-empty line, trimmed, truncated to 40
\* characters and only then with its white space collapsed, so it can stop
\* short of 40 characters; the dashes of a binary file count as zero and give
\* the count form "0+/0-".
C14_SnippetTruncatedThenCollapsed ==
  \A i \in Analysed :
    /\ HunkContent(seen[i]) => IsSnippet(changes[i].change)
    /\ seen[i].numstat = Printed(NS5) /\ seen[i].hunks = Printed(HK3) =>
         changes[i].change =
           <<"d", "i", "f", "f", " ", "-", "-", "g", "i", "t", " ", "a", "/",
             "a", ".", "t", "s", " ", "b", "/", "a", ".", "t", "s">>
    /\ seen[i].numstat = Printed(NS5) /\ seen[i].hunks = Printed(HK4) =>
         changes[i].change =
           <<"@", "@", " ", "-", "1", ",", "2", " ", "+", "1", ",", "3", " ",
             "@", "@", " ", "e", "x", "p", "o", "r", "t", " ", "f", "u", "n",
             "c", "t", "i", "o", "n">>
    /\ seen[i].numstat = Printed(NS3) =>
         changes[i].change = <<"0", "+", "/", "0", "-">>

C14_Witness ==
  \E i, j \in Analysed :
    /\ seen[i].numstat = Printed(NS5)
    /\ seen[i].hunks = Printed(HK4)
    /\ Len(changes[i].change) < SnippetLen
    /\ seen[j].numstat = Printed(NS3)
    /\ IsCountForm(changes[j].change)

\* ------------------------------------------------------------- gitmoji

\* The table, each emoji written as its code.
GITMOJIS ==
  <<
    [emoji |-> ":art:", description |-> <<"I", "m", "p", "r", "o", "v",
      "e", " ", "s", "t", "r", "u", "c", "t", "u", "r", "e", "/", "f",
      "o", "r", "m", "a", "t">>, keywords |-> <<<<"f", "o", "r", "m", "a",
      "t">>, <<"s", "t", "r", "u", "c", "t", "u", "r", "e">>, <<"s", "t",
      "y", "l", "e">>, <<"l", "i", "n", "t">>>>],
    [emoji |-> ":zap:", description |-> <<"I", "m", "p", "r", "o", "v",
      "e", " ", "p", "e", "r", "f", "o", "r", "m", "a", "n", "c", "e">>,
      keywords |-> <<<<"p", "e", "r", "f", "o", "r", "m", "a", "n", "c",
      "e">>, <<"s", "p", "e", "e", "d">>, <<"o", "p", "t", "i", "m", "i",
      "z", "e">>, <<"f", "a", "s", "t">>>>],
    [emoji |-> ":fire:", description |-> <<"R", "e", "m", "o", "v", "e",
      " ", "c", "o", "d", "e", "/", "f", "i", "l", "e", "s">>, keywords
      |-> <<<<"r", "e", "m", "o", "v", "e">>, <<"d", "e", "l", "e", "t",
      "e">>, <<"c", "l", "e", "a", "n">>, <<"u", "n", "u", "s", "e",
      "d">>>>],
    [emoji |-> ":bug:", description |-> <<"F", "i", "x", " ", "b", "u",
      "g">>, keywords |-> <<<<"f", "i", "x">>, <<"b", "u", "g">>, <<"i",
      "s", "s", "u", "e">>, <<"e", "r", "r", "o", "r">>, <<"c", "r", "a",
      "s", "h">>>>],
    [emoji |-> ":sparkles:", description |-> <<"N", "e", "w", " ", "f",
      "e", "a", "t", "u", "r", "e">>, keywords |-> <<<<"f", "e", "a", "t",
      "u", "r", "e">>, <<"n", "e", "w">>, <<"a", "d", "d">>, <<"i", "m",
      "p", "l", "e", "m", "e", "n", "t">>>>],
    [emoji |-> ":memo:", description |-> <<"A", "d", "d", " ", "d", "o",
      "c", "u", "m", "e", "n", "t", "a", "t", "i", "o", "n">>, keywords
      |-> <<<<"d", "o", "c", "s">>, <<"d", "o", "c", "u", "m", "e", "n",
      "t", "a", "t", "i", "o", "n">>, <<"c", "o", "m", "m", "e", "n",
      "t">>, <<"r", "e", "a", "d", "m", "e">>>>],
    [emoji |-> ":rocket:", description |-> <<"D", "e", "p", "l", "o", "y",
      " ", "s", "t", "u", "f", "f">>, keywords |-> <<<<"d", "e", "p", "l",
      "o", "y">>, <<"r", "e", "l", "e", "a", "s", "e">>, <<"p", "u", "b",
      "l", "i", "s", "h">>, <<"l", "a", "u", "n", "c", "h">>>>],
    [emoji |-> ":nail_care:", description |-> <<"P", "o", "l", "i", "s",
      "h", " ", "c", "o", "d", "e">>, keywords |-> <<<<"p", "o", "l", "i",
      "s", "h">>, <<"r", "e", "f", "i", "n", "e">>, <<"i", "m", "p", "r",
      "o", "v", "e">>>>],
    [emoji |-> ":white_check_mark:", description |-> <<"A", "d", "d", " ",
      "t", "e", "s", "t", "s">>, keywords |-> <<<<"t", "e", "s", "t">>,
      <<"t", "e", "s", "t", "s">>, <<"t", "e", "s", "t", "i", "n",
      "g">>>>],
    [emoji |-> ":lock:", description |-> <<"S", "e", "c", "u", "r", "i",
      "t", "y", " ", "f", "i", "x">>, keywords |-> <<<<"s", "e", "c", "u",
      "r", "i", "t", "y">>, <<"a", "u", "t", "h">>, <<"e", "n", "c", "r",
      "y", "p", "t">>>>],
    [emoji |-> ":arrow_up:", description |-> <<"U", "p", "g", "r", "a",
      "d", "e", " ", "d", "e", "p", "e", "n", "d", "e", "n", "c", "i",
      "e", "s">>, keywords |-> <<<<"u", "p", "g", "r", "a", "d", "e">>,
      <<"u", "p", "d", "a", "t", "e">>, <<"d", "e", "p", "e", "n", "d",
      "e", "n", "c", "y">>, <<"d", "e", "p", "e", "n", "d", "e", "n", "c",
      "i", "e", "s">>>>],
    [emoji |-> ":arrow_down:", description |-> <<"D", "o", "w", "n", "g",
      "r", "a", "d", "e", " ", "d", "e", "p", "e", "n", "d", "e", "n",
      "c", "i", "e", "s">>, keywords |-> <<<<"d", "o", "w", "n", "g", "r",
      "a", "d", "e">>>>],
    [emoji |-> ":package:", description |-> <<"U", "p", "d", "a", "t",
      "e", " ", "p", "a", "c", "k", "a", "g", "e", "s">>, keywords |->
      <<<<"p", "a", "c", "k", "a", "g", "e">>, <<"n", "p", "m">>, <<"y",
      "a", "r", "n">>, <<"b", "u", "n", "d", "l", "e", "r">>>>],
    [emoji |-> ":wrench:", description |-> <<"C", "o", "n", "f", "i", "g",
      "u", "r", "a", "t", "i", "o", "n">>, keywords |-> <<<<"c", "o", "n",
      "f", "i", "g">>, <<"c", "o", "n", "f", "i", "g", "u", "r", "a", "t",
      "i", "o", "n">>, <<"s", "e", "t", "t", "i", "n", "g", "s">>>>],
    [emoji |-> ":globe_with_meridians:", description |-> <<"i", "1", "8",
      "n", "/", "l", "o", "c", "a", "l", "i", "z", "a", "t", "i", "o",
      "n">>, keywords |-> <<<<"i", "1", "8", "n">>, <<"t", "r", "a", "n",
      "s", "l", "a", "t", "i", "o", "n">>, <<"l", "o", "c", "a", "l",
      "e">>, <<"l", "a", "n", "g", "u", "a", "g", "e">>>>],
    [emoji |-> ":wheelchair:", description |-> <<"A", "c", "c", "e", "s",
      "s", "i", "b", "i", "l", "i", "t", "y">>, keywords |-> <<<<"a", "c",
      "c", "e", "s", "s", "i", "b", "i", "l", "i", "t", "y">>, <<"a", "1",
      "1", "y">>, <<"a", "r", "i", "a">>>>],
    [emoji |-> ":rotating_light:", description |-> <<"F", "i", "x", " ",
      "w", "a", "r", "n", "i", "n", "g", "s">>, keywords |-> <<<<"w", "a",
      "r", "n", "i", "n", "g">>, <<"l", "i", "n", "t">>, <<"w", "a", "r",
      "n", "i", "n", "g">>>>],
    [emoji |-> ":mag:", description |-> <<"S", "E", "O">>, keywords |->
      <<<<"s", "e", "o">>>>],
    [emoji |-> ":apple:", description |-> <<"m", "a", "c", "O", "S", " ",
      "f", "i", "x">>, keywords |-> <<<<"m", "a", "c", "o", "s">>, <<"m",
      "a", "c">>, <<"a", "p", "p", "l", "e">>>>],
    [emoji |-> ":penguin:", description |-> <<"L", "i", "n", "u", "x",
      " ", "f", "i", "x">>, keywords |-> <<<<"l", "i", "n", "u", "x">>,
      <<"u", "b", "u", "n", "t", "u">>>>],
    [emoji |-> ":window:", description |-> <<"W", "i", "n", "d", "o", "w",
      "s", " ", "f", "i", "x">>, keywords |-> <<<<"w", "i", "n", "d", "o",
      "w", "s">>>>]
  >>

UpperCase ==
  <<"A", "B", "C", "D", "E", "F", "G", "H", "I", "J", "K", "L", "M",
    "N", "O", "P", "Q", "R", "S", "T", "U", "V", "W", "X", "Y", "Z">>
LowerCase ==
  <<"a", "b", "c", "d", "e", "f", "g", "h", "i", "j", "k", "l", "m",
    "n", "o", "p", "q", "r", "s", "t", "u", "v", "w", "x", "y", "z">>

\* String.prototype.toLowerCase
toLowerCase(s) ==
  [i \in 1..Len(s) |->
     IF \E u \in 1..Len(UpperCase) : UpperCase[u] = s[i]
     THEN LowerCase[CHOOSE u \in 1..Len(UpperCase) : UpperCase[u] = s[i]]
     ELSE s[i]]

\* String.prototype.includes
includes(s, k) ==
  \E i \in 1..(Len(s) - Len(k) + 1) : SubSeq(s, i, i + Len(k) - 1) = k

\* String.prototype.split(' ')
RECURSIVE splitSpacesFrom(_, _, _, _)
splitSpacesFrom(s, i, cur, acc) ==
  IF i > Len(s) THEN Append(acc, cur)
  ELSE IF s[i] = " " THEN splitSpacesFrom(s, i + 1, << >>, Append(acc, cur))
       ELSE splitSpacesFrom(s, i + 1, Append(cur, s[i]), acc)

splitSpaces(s) == splitSpacesFrom(s, 1, << >>, << >>)

KeywordPoints == 40
PrefixPoints == 10
PrefixLen == 3
DescriptionPoints == 15
MinWordLen == 2
MaxScore == 100
GoodMatch == 30

RECURSIVE keywordScore(_, _)
keywordScore(msg, keywords) ==
  IF keywords = << >> THEN 0
  ELSE (IF includes(msg, Head(keywords)) THEN KeywordPoints ELSE 0)
       + (IF includes(msg, slice(Head(keywords), PrefixLen))
          THEN PrefixPoints ELSE 0)
       + keywordScore(msg, Tail(keywords))

RECURSIVE descriptionScore(_, _)
descriptionScore(msg, words) ==
  IF words = << >> THEN 0
  ELSE (IF includes(msg, Head(words)) /\ Len(Head(words)) > MinWordLen
        THEN DescriptionPoints ELSE 0)
       + descriptionScore(msg, Tail(words))

calculateFuzzyScore(commitMessage, gitmoji) ==
  LET msg == toLowerCase(commitMessage)
      score == keywordScore(msg, gitmoji.keywords)
               + descriptionScore(msg, splitSpaces(toLowerCase(gitmoji.description)))
  IN  IF score < MaxScore THEN score ELSE MaxScore

\* The loop of findBestGitmoji from entry i on; 0 stands for undefined.
RECURSIVE findBestFrom(_, _, _, _)
findBestFrom(commitMessage, i, bestScore, bestGitmoji) ==
  IF i > Len(GITMOJIS) THEN bestGitmoji
  ELSE LET score == calculateFuzzyScore(commitMessage, GITMOJIS[i])
       IN  IF score > bestScore
           THEN findBestFrom(commitMessage, i + 1, score, i)
           ELSE findBestFrom(commitMessage, i + 1, bestScore, bestGitmoji)

\* findBestGitmoji: the index of the entry in the table, 0 for undefined.
findBestGitmoji(commitMessage) ==
  IF commitMessage = << >> \/ trim(commitMessage) = << >> THEN 0
  ELSE findBestFrom(commitMessage, 1, GoodMatch, 0)

prependGitmoji(commitMessage, gitmoji) ==
  <<gitmoji.emoji, " ">> \o commitMessage

\* getGitmojifiedMessage, rnd being the entry getRandomGitmoji draws.
getGitmojifiedMessage(commitMessage, rnd) ==
  LET bestMatch == findBestGitmoji(commitMessage)
  IN  prependGitmoji(commitMessage,
        GITMOJIS[IF bestMatch # 0 THEN bestMatch ELSE rnd])

\* The entries getRandomGitmoji can draw, when it is called at all.
RandomDraws(commitMessage) ==
  IF findBestGitmoji(commitMessage) # 0 THEN {1} ELSE 1..Len(GITMOJIS)

\* ------------------------------------------------------- model manager

DEFAULT_MODELS ==
  <<"gpt-4o-mini", "gpt-4o", "Phi-3-mini-128k-instruct", "Mistral-large">>

\* getCachedModels: cached || DEFAULT_MODELS (an empty array is truthy).
getCachedModels(cached) == IF cached = NoCache THEN DEFAULT_MODELS ELSE cached

\* getSelectedModelId, given the value of the setting.
getSelectedModelId(setting) == IF setting # "" THEN setting ELSE "gpt-4o-mini"

\* What the user does with a quick pick: dismiss it, or take an item.
Dismiss == 0
OnceOnly == 1
SaveDefault == 2

NoSelection == [picked |-> FALSE, modelId |-> "", persistent |-> FALSE]

\* showModelSelectionPicker with allowPersist: pick is the item taken from the
\* list of models (Dismiss: none), choice the item taken from the second prompt.
showModelSelectionPicker(cached, pick, choice) ==
  LET models == getCachedModels(cached)
  IN  IF pick = Dismiss \/ pick > Len(models) THEN NoSelection
      ELSE IF choice = Dismiss THEN NoSelection
      ELSE [picked |-> TRUE, modelId |-> models[pick],
            persistent |-> (choice = SaveDefault)]

\* Does getModelForApi show the picker?
ShowsPicker(setting, forceSelection) ==
  ~(getSelectedModelId(setting) # "" /\ ~forceSelection)

\* The second prompt always writes the setting.
getModelForApiAlwaysSave(setting, cached, forceSelection, pick, choice) ==
  IF ~ShowsPicker(setting, forceSelection)
  THEN [value |-> getSelectedModelId(setting), setting |-> setting,
        shown |-> FALSE]
  ELSE LET selection == showModelSelectionPicker(cached, pick, choice)
       IN  IF ~selection.picked
           THEN [value |-> "", setting |-> selection.modelId, shown |-> TRUE]
           ELSE [value |-> selection.modelId, setting |-> selection.modelId,
                 shown |-> TRUE]

\* getModelForApi: the model to use ("" for undefined), the setting after the
\* call, and whether the picker was shown.
getModelForApi(setting, cached, forceSelection, pick, choice) ==
  IF ~ShowsPicker(setting, forceSelection)
  THEN [value |-> getSelectedModelId(setting), setting |-> setting,
        shown |-> FALSE]
  ELSE LET selection == showModelSelectionPicker(cached, pick, choice)
       IN  IF ~selection.picked
           THEN [value |-> "", setting |-> setting, shown |-> TRUE]
           ELSE [value |-> selection.modelId,
                 setting |-> IF selection.persistent THEN selection.modelId
                             ELSE setting,
                 shown |-> TRUE]

\* What the user can answer the two prompts of the picker.
PickRange == 0..Len(DEFAULT_MODELS)
Choices == {Dismiss, OnceOnly, SaveDefault}

\* What the request of fetchAvailableModels can end in: a network error, a
\* body that is not JSON, JSON that is not an array, or an array of models.
NetworkError == [kind |-> "error", body |-> << >>]
Unparsable == [kind |-> "text", body |-> << >>]
NotArray == [kind |-> "object", body |-> << >>]
ModelArray(entries) == [kind |-> "array", body |-> entries]

Entry(id, name, task) == [id |-> id, name |-> name, task |-> task]
EntryGpt == Entry("gpt-4o", "gpt-4o", "chat-completion")
EntryO1 == Entry("o1-mini", "o1-mini", "chat-completion")
EntryEmbed == Entry("embed-3", "text-embedding-3", "embeddings")
EntryNoId == Entry("", "unnamed", "chat-completion")

Responses ==
  {NetworkError, Unparsable, NotArray, ModelArray(<< >>),
   ModelArray(<<EntryEmbed>>), ModelArray(<<EntryNoId, EntryGpt>>),
   ModelArray(<<EntryGpt, EntryEmbed, EntryO1>>)}

\* json.filter(m => m.id && m.name && m.task === 'chat-completion')
\*     .map(m => ({ id: m.name, ... }))
RECURSIVE chatModels(_)
chatModels(entries) ==
  IF entries = << >> THEN << >>
  ELSE LET m == Head(entries)
       IN  (IF m.id # "" /\ m.name # "" /\ m.task = "chat-completion"
            THEN <<m.name>> ELSE << >>) \o chatModels(Tail(entries))

\* fetchAvailableModels: the ids it resolves with; it never rejects.
fetchAvailableModels(response) ==
  IF response.kind = "array" THEN chatModels(response.body) ELSE DEFAULT_MODELS

\* The cache written whatever was fetched.
refreshModelListAlways(cached, freshModels) == freshModels

\* refreshModelList: the cache after it, given what was fetched.
refreshModelList(cached, freshModels) ==
  IF Len(freshModels) > 0 THEN freshModels ELSE cached

\* The item of the first prompt the user takes, "" when it is dismissed.
PickedId(cached, pick) ==
  IF pick = Dismiss THEN "" ELSE getCachedModels(cached)[pick]

\* The command autocommiter.selectModel.
SelectModel(hasKey, pick, choice) ==
  /\ pick <= Len(getCachedModels(cachedModels))
  /\ IF hasKey
     THEN LET r == getModelForApi(selectedModel, cachedModels, TRUE, pick, choice)
          IN  /\ selectedModel' = r.setting
              /\ mRet' = [called |-> TRUE, force |-> TRUE, shown |-> r.shown,
                          value |-> r.value, before |-> selectedModel,
                          picked |-> PickedId(cachedModels, pick),
                          choice |-> IF pick = Dismiss THEN Dismiss ELSE choice]
     ELSE UNCHANGED <<selectedModel, mRet>>
  /\ UNCHANGED <<cachedModels, mFetch>>
  /\ UNCHANGED <<compressVars, inspectVars, flowVars, restVars>>

\* The command autocommiter.refreshModels.
RefreshModels(hasKey, response) ==
  /\ IF hasKey
     THEN LET freshModels == fetchAvailableModels(response)
          IN  /\ cachedModels' = refreshModelList(cachedModels, freshModels)
              /\ mFetch' = [called |-> TRUE, kind |-> response.kind,
                            before |-> cachedModels, fresh |-> freshModels]
     ELSE UNCHANGED <<cachedModels, mFetch>>
  /\ UNCHANGED <<selectedModel, mRet>>
  /\ UNCHANGED <<compressVars, inspectVars, flowVars, restVars>>

InitModel ==
  /\ fileChanges = << >>
  /\ CompressIdle
  /\ InspectIdle
  /\ FlowIdle
  /\ ModelIdle
  /\ RestIdle

NextModel ==
  \/ \E hasKey \in BOOLEAN, pick \in PickRange, choice \in Choices :
       SelectModel(hasKey, pick, choice)
  \/ \E hasKey \in BOOLEAN, response \in Responses :
       RefreshModels(hasKey, response)

SpecModel == InitModel /\ [][NextModel]_vars

\* ------------------------------------------- the generateMessage command

\* One entry of the log: what was done for which repository, how it went,
\* and the text that went with it.
Event(r, op, ok, text) == [repo |-> r, op |-> op, ok |-> ok, text |-> text]

MsgFix == <<" ", "F", "i", "x", " ", "c", "r", "a", "s", "h", LF>>
MsgWip == <<"w", "i", "p">>
MsgBlank == <<" ", " ">>
MsgUpdate == <<"U", "p", "d", "a", "t", "e", " ", "d", "e", "p", "s", LF>>

\* What one IDE command does: it throws, or it resolves with a result and
\* leaves in the commit input box what `box` says ("keep": what was there).
IdeThrows == [threw |-> TRUE, result |-> << >>, writes |-> FALSE, box |-> << >>]
IdeNothing == [threw |-> FALSE, result |-> << >>, writes |-> FALSE, box |-> << >>]
IdeReturns(s) == [threw |-> FALSE, result |-> s, writes |-> FALSE, box |-> << >>]
IdeWrites(s) == [threw |-> FALSE, result |-> << >>, writes |-> TRUE, box |-> s]

IdeOutcomes ==
  {IdeThrows, IdeNothing, IdeReturns(MsgFix), IdeWrites(MsgWip),
   IdeWrites(MsgBlank)}

\* The IDE commands that are available, in the order tried: what each does.
\* A command that returns a message ends the loop, so it is the last of its
\* run.
MaxIdeCommands == 2
IdeRuns ==
  {runs \in UNION {[1..n -> IdeOutcomes] : n \in 0..MaxIdeCommands} :
     \A i \in 1..(Len(runs) - 1) : runs[i].result = << >>}

\* The for loop of tryGenerateFromIDE over the available commands: the message
\* (<< >> for undefined) and the input box afterwards.
RECURSIVE tryGenerateFromIDE(_, _)
tryGenerateFromIDE(box, runs) ==
  IF runs = << >> THEN [message |-> << >>, box |-> box]
  ELSE
  LET o == Head(runs)
      beforeValue == box
      after == IF o.writes THEN o.box ELSE box
  IN  IF o.threw THEN tryGenerateFromIDE(box, Tail(runs))
      ELSE IF o.result # << >> /\ trim(o.result) # << >>
           THEN [message |-> trim(o.result), box |-> after]
      ELSE IF after # << >> /\ after # beforeValue
           THEN [message |-> trim(after), box |-> after]
      ELSE tryGenerateFromIDE(after, Tail(runs))

\* The answer of the CLI taken as it is.
generateWithCLIRaw(answer) ==
  IF answer.threw THEN << >> ELSE answer.stdout

\* generateWithCLI: undefined on an error or an empty answer.
generateWithCLI(answer) ==
  IF answer.threw THEN << >> ELSE trim(answer.stdout)

CliAnswers == {Threw, Printed(MsgBlank), Printed(MsgFix)}

\* callInferenceApi rejecting, or resolving with a text.
ApiAnswers == {Threw, Printed(MsgBlank), Printed(MsgUpdate)}

\* The final summary.
Summary(res) ==
  (IF \E i \in 1..Len(res) : res[i].success THEN {"successful"} ELSE {})
  \cup (IF \E i \in 1..Len(res) : ~res[i].success THEN {"failed"} ELSE {})
  \cup (IF res = << >> THEN {"no changes"} ELSE {})

\* The turn of the loop for the current repository is over: the next
\* repository, or the final summary.
NextRepo(res) ==
  /\ results' = res
  /\ message' = << >>
  /\ wasCliGenerated' = FALSE
  /\ IF repo = NumRepos
     THEN /\ fPc' = "done"
          /\ notes' = notes \cup Summary(res)
          /\ repo' = repo
     ELSE /\ fPc' = "add"
          /\ notes' = notes
          /\ repo' = repo + 1

\* exec calling back with an error: what the process wrote on stderr and on
\* stdout, and the message of the error itself.
CmdFailed == <<"C", "o", "m", "m", "a", "n", "d", " ", "f", "a", "i", "l", "e", "d">>
GitFailures ==
  {[stderr |-> <<"f", "a", "t", "a", "l">>, stdout |-> << >>, message |-> CmdFailed],
   [stderr |-> << >>, stdout |-> <<"n", "o", "t", "h", "i", "n", "g">>,
    message |-> CmdFailed],
   [stderr |-> << >>, stdout |-> << >>, message |-> CmdFailed]}

\* The message of the Error runGitCommand rejects with.
runGitCommandError(f) ==
  IF f.stderr # << >> THEN f.stderr
  ELSE IF f.stdout # << >> THEN f.stdout
  ELSE f.message

\* What exec reported for the command that failed.
Rejected(r, f) ==
  [repo |-> r, op |-> "rejected", ok |-> FALSE, text |-> << >>,
   stderr |-> f.stderr, stdout |-> f.stdout, message |-> f.message]

\* The failure is recorded and the run ends with the summary.
FailedStops(f) ==
  /\ results' = Append(results, [name |-> repo, success |-> FALSE,
                                  error |-> runGitCommandError(f)])
  /\ message' = << >>
  /\ wasCliGenerated' = FALSE
  /\ fPc' = "done"
  /\ notes' = notes \cup {"failed"}
  /\ repo' = repo

\* The catch of the loop body.
Failed(f) ==
  NextRepo(Append(results, [name |-> repo, success |-> FALSE,
                            error |-> runGitCommandError(f)]))

\* Every source is asked, whatever the ones before it gave.
afterSourceAlways(m, next) == next

\* if (!message): the next source is asked only while there is no message.
afterSource(m, next) == IF m = << >> THEN next ELSE "final"

\* The command is invoked: the Git extension and the repositories are looked
\* up.
StartRun(hasApi, hasRepos) ==
  /\ fPc = "idle"
  /\ IF hasApi /\ hasRepos
     THEN /\ fPc' = "add"
          /\ repo' = 1
          /\ notes' = notes
     ELSE /\ fPc' = "done"
          /\ repo' = repo
          /\ notes' = notes \cup {IF ~hasApi THEN "no git" ELSE "no repositories"}
  /\ UNCHANGED <<message, wasCliGenerated, results, log, inputBox, enableGitmoji>>
  /\ UNCHANGED <<compressVars, inspectVars, modelVars, restVars>>

\* 1) git add .
StageAll(ok) ==
  /\ fPc = "add"
  /\ IF ok
     THEN /\ log' = <<Event(repo, "add", TRUE, << >>)>>
          /\ fPc' = "list"
          /\ UNCHANGED <<repo, message, wasCliGenerated, results, notes>>
     ELSE \E failure \in GitFailures :
            /\ log' = <<Event(repo, "add", FALSE, << >>), Rejected(repo, failure)>>
            /\ Failed(failure)
  /\ UNCHANGED <<inputBox, enableGitmoji>>
  /\ UNCHANGED <<compressVars, inspectVars, modelVars, restVars>>

\* Answers of git diff --staged --name-only the runs are followed for: a
\* failure, nothing, white space only, and names.
StagedAnswers == {Threw, Printed(LS1), Printed(LS2), Printed(LS3)}

\* The names kept as they were printed.
stagedNamesRaw(answer) == answer.stdout

\* const staged = (await runGitCommand(...)).trim(), for a query that did
\* not fail.
stagedNames(answer) == trim(answer.stdout)

\* 2) git diff --staged --name-only; nothing staged: continue.
CheckStaged(answer) ==
  /\ fPc = "list"
  /\ IF answer.threw
     THEN \E failure \in GitFailures :
            /\ log' = log \o <<Event(repo, "list", FALSE, << >>),
                               Rejected(repo, failure)>>
            /\ Failed(failure)
     ELSE /\ log' = Append(log, Event(repo, "list", TRUE, answer.stdout))
          /\ IF stagedNames(answer) = << >> THEN NextRepo(results)
             ELSE /\ fPc' = "ide"
                  /\ UNCHANGED <<repo, message, wasCliGenerated, results, notes>>
  /\ UNCHANGED <<inputBox, enableGitmoji>>
  /\ UNCHANGED <<compressVars, inspectVars, modelVars, restVars>>

\* 3) tryGenerateFromIDE
TryIDE(runs) ==
  /\ fPc = "ide"
  /\ LET r == tryGenerateFromIDE(inputBox[repo], runs)
     IN  /\ message' = r.message
         /\ inputBox' = [inputBox EXCEPT ![repo] = r.box]
         /\ log' = Append(log, Event(repo, "ide", r.message # << >>, r.message))
         /\ fPc' = afterSource(r.message, "cli")
  /\ UNCHANGED <<repo, wasCliGenerated, results, enableGitmoji, notes>>
  /\ UNCHANGED <<compressVars, inspectVars, modelVars, restVars>>

\* 4) generateWithCLI
TryCLI(answer) ==
  /\ fPc = "cli"
  /\ LET m == generateWithCLI(answer)
     IN  /\ message' = m
         /\ wasCliGenerated' = (m # << >>)
         /\ log' = Append(log, Event(repo, "cli", m # << >>, m))
         /\ fPc' = afterSource(m, "api")
  /\ UNCHANGED <<repo, results, inputBox, enableGitmoji, notes>>
  /\ UNCHANGED <<compressVars, inspectVars, modelVars, restVars>>

\* 5) the extension's own fallback: API key (never prompted for here), model,
\* buildFileChanges, compressToJson, callInferenceApi; every failure is caught
\* and leaves the message undefined.
TryAPI(hasKey, pick, choice, inspectThrew, answer) ==
  /\ fPc = "api"
  /\ pick <= Len(getCachedModels(cachedModels))
  /\ ShowsPicker(selectedModel, FALSE) \/ (pick = Dismiss /\ choice = Dismiss)
  /\ LET r == getModelForApi(selectedModel, cachedModels, FALSE, pick, choice)
         called == hasKey /\ r.value # "" /\ ~inspectThrew
         m == IF called /\ ~answer.threw THEN trim(answer.stdout) ELSE << >>
     IN  /\ message' = m
         /\ IF hasKey
            THEN /\ selectedModel' = r.setting
                 /\ mRet' = [called |-> TRUE, force |-> FALSE, shown |-> r.shown,
                             value |-> r.value, before |-> selectedModel,
                             picked |-> IF r.shown
                                        THEN PickedId(cachedModels, pick) ELSE "",
                             choice |-> IF r.shown /\ pick # Dismiss
                                        THEN choice ELSE Dismiss]
            ELSE UNCHANGED <<selectedModel, mRet>>
         /\ log' = log
              \o <<Event(repo, "key", hasKey, << >>)>>
              \o (IF hasKey /\ r.shown
                  THEN <<Event(repo, "prompt", TRUE, << >>)>> ELSE << >>)
              \o (IF hasKey
                  THEN <<Event(repo, "model", r.value # "", <<r.value>>)>>
                  ELSE << >>)
              \o (IF hasKey /\ r.value # ""
                  THEN <<Event(repo, "inspect", ~inspectThrew, << >>)>>
                  ELSE << >>)
              \o (IF called
                  THEN <<Event(repo, "api", m # << >>, m)>> ELSE << >>)
  /\ fPc' = "final"
  /\ UNCHANGED <<repo, wasCliGenerated, results, inputBox, enableGitmoji, notes>>
  /\ UNCHANGED <<cachedModels, mFetch>>
  /\ UNCHANGED <<compressVars, inspectVars, restVars>>

\* The error is shown and the loop goes on with the next repository.
GiveUpContinues ==
  /\ fPc = "final"
  /\ message = << >>
  /\ IF repo = NumRepos
     THEN /\ fPc' = "done"
          /\ notes' = notes \cup {"generation failed"} \cup Summary(results)
          /\ repo' = repo
     ELSE /\ fPc' = "add"
          /\ notes' = notes \cup {"generation failed"}
          /\ repo' = repo + 1
  /\ UNCHANGED <<message, wasCliGenerated, results, log, inputBox,
                 enableGitmoji>>
  /\ UNCHANGED <<compressVars, inspectVars, modelVars, restVars>>

\* 6) the final check when no source gave a message: an error is shown and
\* the command returns, the remaining repositories and the summary with it.
GiveUp ==
  /\ fPc = "final"
  /\ message = << >>
  /\ fPc' = "done"
  /\ notes' = notes \cup {"generation failed"}
  /\ UNCHANGED <<repo, message, wasCliGenerated, results, log, inputBox,
                 enableGitmoji>>
  /\ UNCHANGED <<compressVars, inspectVars, modelVars, restVars>>

\* The draws of getRandomGitmoji the runs are followed for: the first and
\* the last entry of the table.
FlowDraws == {1, Len(GITMOJIS)}

\* Is the gitmoji applied to the message?
Decorates == ~wasCliGenerated /\ enableGitmoji

\* The final check passed: the gitmoji, then git commit -F <file holding the
\* message>.
Commit ==
  /\ fPc = "final"
  /\ message # << >>
  /\ \E rnd \in (IF Decorates THEN RandomDraws(message) \cap FlowDraws
                ELSE {1}) :
       LET m == IF Decorates THEN getGitmojifiedMessage(message, rnd)
                ELSE message
       IN  \E ok \in BOOLEAN :
             IF ok
             THEN /\ log' = Append(log, Event(repo, "commit", TRUE, m))
                  /\ message' = m
                  /\ fPc' = "push"
                  /\ UNCHANGED <<repo, wasCliGenerated, results, notes>>
             ELSE \E failure \in GitFailures :
                    /\ log' = log \o <<Event(repo, "commit", FALSE, m),
                                       Rejected(repo, failure)>>
                    /\ Failed(failure)
  /\ UNCHANGED <<inputBox, enableGitmoji>>
  /\ UNCHANGED <<compressVars, inspectVars, modelVars, restVars>>

\* git push, then the commit input box is cleared and the success recorded.
Push(ok) ==
  /\ fPc = "push"
  /\ IF ok
     THEN /\ log' = log \o <<Event(repo, "push", TRUE, << >>),
                             Event(repo, "clear", TRUE, << >>)>>
          /\ inputBox' = [inputBox EXCEPT ![repo] = << >>]
          /\ NextRepo(Append(results, [name |-> repo, success |-> TRUE,
                                       error |-> << >>]))
     ELSE \E failure \in GitFailures :
            /\ log' = log \o <<Event(repo, "push", FALSE, << >>),
                               Rejected(repo, failure)>>
            /\ inputBox' = inputBox
            /\ Failed(failure)
  /\ UNCHANGED enableGitmoji
  /\ UNCHANGED <<compressVars, inspectVars, modelVars, restVars>>

\* A draft the user may have left in a commit input box.
Drafts == {<< >>, MsgWip}

InitFlow ==
  /\ fileChanges = << >>
  /\ CompressIdle
  /\ InspectIdle
  /\ fPc = "idle"
  /\ repo = 0
  /\ message = << >>
  /\ wasCliGenerated = FALSE
  /\ results = << >>
  /\ log = << >>
  /\ inputBox \in {[r \in Repos |-> d] : d \in Drafts}
  /\ enableGitmoji \in BOOLEAN
  /\ notes = {}
  /\ selectedModel \in {"", "gpt-4o"}
  /\ cachedModels = NoCache
  /\ mRet = NoReturn
  /\ mFetch = NoFetch
  /\ RestIdle

NextFlow ==
  \/ \E hasApi, hasRepos \in BOOLEAN : StartRun(hasApi, hasRepos)
  \/ \E ok \in BOOLEAN : StageAll(ok)
  \/ \E answer \in StagedAnswers : CheckStaged(answer)
  \/ \E runs \in IdeRuns : TryIDE(runs)
  \/ \E answer \in CliAnswers : TryCLI(answer)
  \/ \E hasKey \in BOOLEAN, pick \in PickRange, choice \in Choices,
        inspectThrew \in BOOLEAN, answer \in ApiAnswers :
       TryAPI(hasKey, pick, choice, inspectThrew, answer)
  \/ GiveUp
  \/ Commit
  \/ \E ok \in BOOLEAN : Push(ok)

SpecFlow == InitFlow /\ [][NextFlow]_vars

\* ------------------------------------------------------ claims: the flow

Logged == 1..Len(log)

\* The staged listing succeeded and named no file.
NothingStaged(e) == e.op = "list" /\ e.ok /\ Blank(e.text)

IsSource(e) == e.op \in {"ide", "cli", "api"}

\* C15: when nothing is staged in a repository, getStagedFiles returns an
\* empty list without raising, and generateMessage treats the repository as
\* having nothing to do: no message source is invoked, nothing is committed
\* or pushed, and the repository is not reported as a failure.
C15_NothingStagedIsNothingToDo ==
  \A i \in Logged :
    NothingStaged(log[i]) =>
      /\ getStagedFiles(Printed(log[i].text)) = [threw |-> FALSE, value |-> << >>]
      /\ i = Len(log)
      /\ fPc \in {"add", "done"}
      /\ \A k \in 1..Len(results) : results[k].name # log[i].repo
      /\ "generation failed" \notin notes
      /\ results = << >> /\ fPc = "done" => notes = {"no changes"}

C15_Witness ==
  /\ fPc = "done"
  /\ Len(log) = 2
  /\ NothingStaged(log[2])
  /\ log[2].text # << >>
  /\ log[2].repo = NumRepos
  /\ notes = {"no changes"}

\* C16: within one run, for each repository, git commit is invoked only
\* after staging succeeded, the staged list was not empty and a message that
\* is not empty was obtained; git push only after that commit succeeded; and
\* the commit input box is cleared only after the push succeeded.
C16_CommitPushClearInOrder ==
  \A i \in Logged :
    /\ log[i].repo = log[1].repo
    /\ log[i].op = "commit" =>
         /\ \E a \in 1..(i - 1) : log[a].op = "add" /\ log[a].ok
         /\ \E l \in 1..(i - 1) :
              log[l].op = "list" /\ log[l].ok /\ ~Blank(log[l].text)
         /\ \E s \in 1..(i - 1) :
              IsSource(log[s]) /\ log[s].ok /\ ~Blank(log[s].text)
         /\ ~Blank(log[i].text)
    /\ log[i].op = "push" =>
         \E c \in 1..(i - 1) : log[c].op = "commit" /\ log[c].ok
    /\ log[i].op = "clear" =>
         /\ \E u \in 1..(i - 1) : log[u].op = "push" /\ log[u].ok
         /\ inputBox[log[i].repo] = << >>

C16_Witness ==
  /\ Len(log) > 0
  /\ log[Len(log)].op = "clear"
  /\ log[Len(log)].repo = NumRepos
  /\ \E k \in 1..Len(results) : ~results[k].success

\* The message the sources gave before commit i of the log.
Generated(i) ==
  log[CHOOSE s \in 1..(i - 1) :
        /\ IsSource(log[s]) /\ log[s].ok
        /\ \A s2 \in (s + 1)..(i - 1) : ~(IsSource(log[s2]) /\ log[s2].ok)].text

\* C17: when autocommiter.enableGitmoji is true, every message committed by
\* generateMessage begins with a gitmoji of the table, a space, and then the
\* generated message; the gitmoji is the best fuzzy match, or any of the
\* table when there is no good match.
C17_CommittedMessageHasGitmoji ==
  enableGitmoji =>
    \A i \in Logged :
      log[i].op = "commit" =>
        \E g \in 1..Len(GITMOJIS) :
          /\ log[i].text = prependGitmoji(Generated(i), GITMOJIS[g])
          /\ findBestGitmoji(Generated(i)) \in {0, g}

\* C18: after generateMessage succeeds for a repository, the generated
\* commit message is present in that repository's commit input box.
C18_MessageInInputBox ==
  \A i \in Logged :
    log[i].op = "push" /\ log[i].ok =>
      \E c \in 1..(i - 1) :
        /\ log[c].op = "commit"
        /\ inputBox[log[i].repo] = log[c].text

\* C19: when the API fallback is used while no model is saved, the user is
\* prompted to select a model before the API is called; with a saved model
\* there is no prompt.
C19_FirstApiUsePromptsForModel ==
  \A i \in Logged :
    log[i].op = "api" =>
      IF mRet.before = ""
      THEN \E j \in 1..(i - 1) : log[j].op = "prompt"
      ELSE \A j \in 1..(i - 1) : log[j].op # "prompt"

\* ------------------------------------------- claims: the model manager

\* C20: in the picker of getModelForApi with forceSelection, 'Use for this
\* commit only' returns the picked model and leaves the setting
\* autocommiter.selectedModel as it was; 'Save as default' returns it and
\* writes it to the setting; dismissing either prompt returns no model and
\* changes no setting.
C20_PickerPersistsOnlyOnSave ==
  mRet.called /\ mRet.force =>
    /\ mRet.shown
    /\ mRet.choice = OnceOnly =>
         mRet.picked # "" /\ mRet.value = mRet.picked /\ selectedModel = mRet.before
    /\ mRet.choice = SaveDefault =>
         mRet.picked # "" /\ mRet.value = mRet.picked /\ selectedModel = mRet.picked
    /\ mRet.choice = Dismiss =>
         mRet.value = "" /\ selectedModel = mRet.before

C20_Witness ==
  /\ mRet.called
  /\ mRet.force
  /\ mRet.choice = OnceOnly
  /\ mRet.before \notin {"", mRet.picked}
  /\ mRet.value = "o1-mini"
  /\ selectedModel = mRet.before

\* C21: when fetching the model list fails with a network error during a
\* refresh, the list cached before is kept and is the one offered to the user
\* afterwards.
C21_NetworkErrorKeepsCache ==
  mFetch.called /\ mFetch.kind = "error" =>
    getCachedModels(cachedModels) = getCachedModels(mFetch.before)

\* C29: after any sequence of refreshModelList calls getCachedModels returns
\* a list that is not empty: the cache is overwritten only by a fetched list
\* that is not empty, and the default list is returned while nothing is
\* cached.
C29_CachedModelsNeverEmpty ==
  /\ Len(getCachedModels(cachedModels)) > 0
  /\ cachedModels # NoCache => Len(cachedModels) > 0
  /\ cachedModels = NoCache =>
       getCachedModels(cachedModels)
         = <<"gpt-4o-mini", "gpt-4o", "Phi-3-mini-128k-instruct", "Mistral-large">>
  /\ mFetch.called =>
       /\ cachedModels # mFetch.before =>
            cachedModels = mFetch.fresh /\ Len(mFetch.fresh) > 0
       /\ mFetch.fresh = << >> => cachedModels = mFetch.before

C29_Witness ==
  /\ mFetch.called
  /\ mFetch.kind = "array"
  /\ mFetch.fresh = << >>
  /\ mFetch.before = <<"gpt-4o", "o1-mini">>
  /\ cachedModels = mFetch.before

\* ------------------------------------- claims: compressToJson, continued

\* Candidate (m2, k2) is tried before candidate (m, k).
TriedBefore(m2, k2, m, k) == m2 < m \/ (m2 = m /\ k2 > k)

CandidateFits(fcs, b, m, k) == Len(serialize(SubSeq(fcs, 1, k), m)) <= b

Caps == {0 - 1, 12, 6, 3, 1}

\* C23: in every output of compressToJson that is not the fallback there is
\* one cap L, unbounded or 12, 6, 3 or 1, such that each entry's decoded c is
\* the first min(|change|, L) characters of that file's descriptor and each
\* decoded f is the path as it was; the cut is made before escaping, so no
\* escape sequence is split.
C23_OneCapCutBeforeEscaping ==
  (Returned /\ ret.site = "fit") =>
    /\ JsonParse(ret.s).ok
    /\ Len(OutFiles) \in 1..Len(fileChanges)
    /\ \E cap \in Caps :
         OutFiles = Capped(SubSeq(fileChanges, 1, Len(OutFiles)), cap)

C23_Witness ==
  /\ Returned
  /\ ret.site = "fit"
  /\ \E i \in 1..Len(OutFiles) :
       /\ Len(OutFiles[i].c) < Len(fileChanges[i].change)
       /\ OutFiles[i].c = SubSeq(fileChanges[i].change, 1, Len(OutFiles[i].c))
       /\ OutFiles[i].c[Len(OutFiles[i].c)] \in {Q, BS, LF, CR}
       /\ HasSpecial(fileChanges[i].file)

\* ------------------------------------------ getGitmojifiedMessage alone

\* Commit messages of up to MaxWords of these words, one space between.
Words ==
  {<<"f", "i", "x">>, <<"c", "r", "a", "s", "h">>, <<"w", "a", "r", "p">>,
   <<"l", "i", "n", "e">>, <<"w", "i", "p">>, <<"U", "p", "d", "a", "t", "e">>,
   <<"d", "o", "c", "s">>}

MaxWords == 2

RECURSIVE joinWords(_)
joinWords(ws) ==
  IF ws = << >> THEN << >>
  ELSE IF Len(ws) = 1 THEN ws[1]
  ELSE ws[1] \o <<" ">> \o joinWords(Tail(ws))

GitmojiInputs ==
  {joinWords(ws) : ws \in UNION {[1..n -> Words] : n \in 1..MaxWords}}

\* getGitmojifiedMessage(commitMessage)
Gitmojify(rnd) ==
  /\ gPc = "idle"
  /\ rnd \in RandomDraws(gMessage)
  /\ gPc' = "returned"
  /\ gOut' = [best |-> findBestGitmoji(gMessage),
              text |-> getGitmojifiedMessage(gMessage, rnd)]
  /\ UNCHANGED gMessage
  /\ UNCHANGED <<compressVars, inspectVars, flowVars, modelVars, keyVars, runsVars>>

InitGitmoji ==
  /\ fileChanges = << >>
  /\ CompressIdle
  /\ InspectIdle
  /\ FlowIdle
  /\ ModelIdle
  /\ KeyIdle
  /\ RunsIdle
  /\ gPc = "idle"
  /\ gMessage \in GitmojiInputs
  /\ gOut = NoOut

NextGitmoji == \E rnd \in 1..Len(GITMOJIS) : Gitmojify(rnd)

SpecGitmoji == InitGitmoji /\ [][NextGitmoji]_vars

\* The highest score any entry of the table gets for the message.
BestScore(msg) ==
  CHOOSE s \in {calculateFuzzyScore(msg, GITMOJIS[i]) : i \in 1..Len(GITMOJIS)} :
    \A i \in 1..Len(GITMOJIS) : calculateFuzzyScore(msg, GITMOJIS[i]) <= s

\* C24: findBestGitmoji returns the highest-scoring gitmoji whenever that
\* score is at least 30, and returns no match, so that a random gitmoji is
\* used, only when every gitmoji scores below 30.
C24_MatchAtThirtyOrMore ==
  gPc = "returned" =>
    IF BestScore(gMessage) >= 30
    THEN /\ gOut.best # 0
         /\ calculateFuzzyScore(gMessage, GITMOJIS[gOut.best]) = BestScore(gMessage)
         /\ gOut.text = <<GITMOJIS[gOut.best].emoji, " ">> \o gMessage
    ELSE gOut.best = 0

\* ------------------------------------------- claims: sources and failures

\* The events of the message sources asked for the current repository; the
\* "key" event opens the extension's own fallback, whose "api" event is the
\* call of the inference API.
SourceEvents == {i \in Logged : log[i].op \in {"ide", "cli", "key"}}

\* The commit message is the text, as it is or behind a gitmoji.
CommitsText(committed, text, decorated) ==
  IF decorated
  THEN \E g \in 1..Len(GITMOJIS) : committed = prependGitmoji(text, GITMOJIS[g])
  ELSE committed = text

\* C25: for each repository the message sources are tried strictly in the
\* order IDE command, autocommiter CLI, inference API; a later source is
\* invoked only if every earlier one yielded no non-empty message, and the
\* first non-empty message obtained is the one committed, before the optional
\* gitmoji decoration.
C25_SourcesInOrderFirstMessageWins ==
  \A i \in Logged :
    /\ log[i].op = "ide" => \A j \in 1..(i - 1) : ~IsSource(log[j]) /\ log[j].op # "key"
    /\ log[i].op = "cli" => log[i - 1].op = "ide" /\ log[i - 1].text = << >>
    /\ log[i].op = "key" => /\ log[i - 1].op = "cli" /\ log[i - 1].text = << >>
                            /\ log[i - 2].op = "ide" /\ log[i - 2].text = << >>
    /\ log[i].op = "api" => \E j \in 1..(i - 1) :
                              /\ log[j].op = "key"
                              /\ \A k \in (j + 1)..(i - 1) : ~IsSource(log[k])
    /\ log[i].op = "commit" =>
         \E j \in 1..(i - 1) :
           /\ IsSource(log[j])
           /\ log[j].text # << >>
           /\ \A k \in 1..(i - 1) : IsSource(log[k]) /\ k # j => log[k].text = << >>
           /\ \A k \in (j + 1)..(i - 1) : log[k].op \notin {"ide", "cli", "key"}
           /\ CommitsText(log[i].text, log[j].text,
                          log[j].op # "cli" /\ enableGitmoji)

\* A commit of the message the inference API gave, after the IDE command and
\* the CLI gave none.
C25_Witness ==
  /\ fPc = "push"
  /\ \E i, j \in Logged :
       /\ log[i].op = "api" /\ log[i].text # << >>
       /\ log[j].op = "commit" /\ log[j].ok
       /\ \E k \in Logged : log[k].op = "cli"

\* The git command the last of the log reports as failed.
LastFailed ==
  /\ Len(log) >= 2
  /\ log[Len(log)].op = "rejected"
  /\ log[Len(log) - 1].op \in {"add", "list", "commit", "push"}

KeyCli == <<"g", "h", "o", "_", "c", "l", "i">>
KeyStored == <<"g", "h", "p", "_", "o", "l", "d">>
KeyTyped == <<"g", "h", "p", "_", "n", "e", "w">>
TokenAnswers ==
  {Threw, Printed(<< >>), Printed(<<" ", LF>>), Printed(KeyCli \o <<LF>>),
   Printed(<<" ">> \o KeyCli \o <<CR, LF>>)}

\* What the user does with the input box: dismisses it, leaves it blank,
\* types a key, with or without white space around it.
Entries == {<< >>, <<" ">>, KeyTyped, <<" ">> \o KeyTyped \o <<" ">>}

\* getAutocommiterToken: the trimmed output, undefined (<< >>) when the CLI
\* failed or printed nothing.
getAutocommiterToken(answer) ==
  IF answer.threw THEN << >> ELSE trim(answer.stdout)

\* The user is asked whatever promptIfNeeded says.
getOrPromptApiKeyAlwaysPrompts(answer, stored, getThrew, promptIfNeeded, entered, storeThrew) ==
  LET cliToken == getAutocommiterToken(answer)
      existing == IF getThrew THEN << >> ELSE stored
  IN  IF cliToken # << >>
      THEN [value |-> cliToken, stored |-> stored, prompted |-> FALSE,
            cli |-> cliToken, read |-> FALSE, existing |-> << >>]
      ELSE IF existing # << >>
      THEN [value |-> existing, stored |-> stored, prompted |-> FALSE,
            cli |-> cliToken, read |-> TRUE, existing |-> existing]
      ELSE [value |-> trim(entered),
            stored |-> IF trim(entered) # << >> /\ ~storeThrew
                       THEN trim(entered) ELSE stored,
            prompted |-> TRUE,
            cli |-> cliToken, read |-> TRUE, existing |-> existing]

\* getOrPromptApiKey(context, promptIfNeeded): the key returned (<< >> for
\* undefined), the secret afterwards, whether the input box was shown, and
\* what the CLI and the secret storage gave.
getOrPromptApiKey(answer, stored, getThrew, promptIfNeeded, entered, storeThrew) ==
  LET cliToken == getAutocommiterToken(answer)
      existing == IF getThrew THEN << >> ELSE stored
  IN  IF cliToken # << >>
      THEN [value |-> cliToken, stored |-> stored, prompted |-> FALSE,
            cli |-> cliToken, read |-> FALSE, existing |-> << >>]
      ELSE IF existing # << >>
      THEN [value |-> existing, stored |-> stored, prompted |-> FALSE,
            cli |-> cliToken, read |-> TRUE, existing |-> existing]
      ELSE IF ~promptIfNeeded
      THEN [value |-> << >>, stored |-> stored, prompted |-> FALSE,
            cli |-> cliToken, read |-> TRUE, existing |-> existing]
      ELSE [value |-> trim(entered),
            stored |-> IF trim(entered) # << >> /\ ~storeThrew
                       THEN trim(entered) ELSE stored,
            prompted |-> TRUE,
            cli |-> cliToken, read |-> TRUE, existing |-> existing]

\* One call: the secret and the record of the call.
KeyCall(site, promptIfNeeded, answer, getThrew, entered, storeThrew) ==
  LET r == getOrPromptApiKey(answer, storedKey, getThrew, promptIfNeeded,
                             entered, storeThrew)
  IN  /\ storedKey' = r.stored
      /\ kRet' = [called |-> TRUE, site |-> site, answer |-> answer,
                  cli |-> r.cli, read |-> r.read, existing |-> r.existing,
                  before |-> storedKey, allowed |-> promptIfNeeded,
                  prompted |-> r.prompted,
                  entered |-> IF r.prompted THEN entered ELSE << >>,
                  value |-> r.value]

\* autocommiter.refreshModels and autocommiter.selectModel:
\* getOrPromptApiKey(context)
KeyForCommand(site, answer, getThrew, entered, storeThrew) ==
  /\ KeyCall(site, TRUE, answer, getThrew, entered, storeThrew)
  /\ UNCHANGED <<compressVars, inspectVars, flowVars, modelVars, gitmojiVars, runsVars>>

\* The fallback of generateMessage: getOrPromptApiKey(context, false)
KeyForGenerate(answer, getThrew) ==
  /\ KeyCall("generateMessage", FALSE, answer, getThrew, << >>, FALSE)
  /\ UNCHANGED <<compressVars, inspectVars, flowVars, modelVars, gitmojiVars, runsVars>>

InitKey ==
  /\ fileChanges = << >>
  /\ CompressIdle
  /\ InspectIdle
  /\ FlowIdle
  /\ ModelIdle
  /\ GitmojiIdle
  /\ RunsIdle
  /\ storedKey \in {<< >>, KeyStored}
  /\ kRet = NoKeyCall

NextKey ==
  \/ \E site \in {"refreshModels", "selectModel"}, answer \in TokenAnswers,
        getThrew \in BOOLEAN, entered \in Entries, storeThrew \in BOOLEAN :
       KeyForCommand(site, answer, getThrew, entered, storeThrew)
  \/ \E answer \in TokenAnswers, getThrew \in BOOLEAN :
       KeyForGenerate(answer, getThrew)

SpecKey == InitKey /\ [][NextKey]_vars

\* The CLI printed a token: something other than white space.
CliGaveToken == ~kRet.answer.threw /\ ~Blank(kRet.answer.stdout)

RunNextRepo(r) ==
  IF rRepo[r] = NumRepos
  THEN /\ rPc' = [rPc EXCEPT ![r] = "done"]
       /\ UNCHANGED rRepo
  ELSE /\ rPc' = [rPc EXCEPT ![r] = "add"]
       /\ rRepo' = [rRepo EXCEPT ![r] = rRepo[r] + 1]

\* Run r moves on within its repository.
RunGoes(r, to) ==
  /\ rPc' = [rPc EXCEPT ![r] = to]
  /\ UNCHANGED rRepo

\* The command starts only while no other run is in progress.
RunStartGuarded(r, hasApi, hasRepos) ==
  /\ rPc[r] = "idle"
  /\ \A o \in Runs \ {r} : rPc[o] \in {"idle", "done"}
  /\ IF hasApi /\ hasRepos
     THEN /\ rPc' = [rPc EXCEPT ![r] = "add"]
          /\ rRepo' = [rRepo EXCEPT ![r] = 1]
     ELSE RunGoes(r, "done")
  /\ UNCHANGED <<compressVars, inspectVars, flowVars, modelVars, gitmojiVars, keyVars>>

\* The command is invoked: the checks before the loop.
RunStart(r, hasApi, hasRepos) ==
  /\ rPc[r] = "idle"
  /\ IF hasApi /\ hasRepos
     THEN /\ rPc' = [rPc EXCEPT ![r] = "add"]
          /\ rRepo' = [rRepo EXCEPT ![r] = 1]
     ELSE RunGoes(r, "done")
  /\ UNCHANGED <<compressVars, inspectVars, flowVars, modelVars, gitmojiVars, keyVars>>

\* await runGitCommand('git add .')
RunStageAll(r, ok) ==
  /\ rPc[r] = "add"
  /\ IF ok THEN RunGoes(r, "list") ELSE RunNextRepo(r)
  /\ UNCHANGED <<compressVars, inspectVars, flowVars, modelVars, gitmojiVars, keyVars>>

\* await runGitCommand('git diff --staged --name-only'): it fails, or names
\* nothing, or names files.
RunCheckStaged(r, ok, staged) ==
  /\ rPc[r] = "list"
  /\ IF ok /\ staged THEN RunGoes(r, "ide") ELSE RunNextRepo(r)
  /\ UNCHANGED <<compressVars, inspectVars, flowVars, modelVars, gitmojiVars, keyVars>>

\* await tryGenerateFromIDE
RunTryIDE(r, got) ==
  /\ rPc[r] = "ide"
  /\ RunGoes(r, afterSource(IF got THEN MsgUpdate ELSE << >>, "cli"))
  /\ UNCHANGED <<compressVars, inspectVars, flowVars, modelVars, gitmojiVars, keyVars>>

\* await generateWithCLI
RunTryCLI(r, got) ==
  /\ rPc[r] = "cli"
  /\ RunGoes(r, afterSource(IF got THEN MsgUpdate ELSE << >>, "api"))
  /\ UNCHANGED <<compressVars, inspectVars, flowVars, modelVars, gitmojiVars, keyVars>>

\* The awaits of the fallback, and the final check: without a message the
\* run returns.
RunTryAPI(r, got) ==
  /\ rPc[r] = "api"
  /\ RunGoes(r, IF got THEN "final" ELSE "done")
  /\ UNCHANGED <<compressVars, inspectVars, flowVars, modelVars, gitmojiVars, keyVars>>

\* await runGitCommand('git commit -F ...')
RunCommit(r, ok) ==
  /\ rPc[r] = "final"
  /\ IF ok THEN RunGoes(r, "push") ELSE RunNextRepo(r)
  /\ UNCHANGED <<compressVars, inspectVars, flowVars, modelVars, gitmojiVars, keyVars>>

\* await runGitCommand('git push'); failed or not, the next repository.
RunPush(r, ok) ==
  /\ rPc[r] = "push"
  /\ RunNextRepo(r)
  /\ UNCHANGED <<compressVars, inspectVars, flowVars, modelVars, gitmojiVars, keyVars>>

InitRuns ==
  /\ fileChanges = << >>
  /\ CompressIdle
  /\ InspectIdle
  /\ FlowIdle
  /\ ModelIdle
  /\ GitmojiIdle
  /\ KeyIdle
  /\ RunsIdle

NextRuns ==
  \/ \E r \in Runs, hasApi, hasRepos \in BOOLEAN : RunStart(r, hasApi, hasRepos)
  \/ \E r \in Runs, ok \in BOOLEAN : RunStageAll(r, ok)
  \/ \E r \in Runs, ok, staged \in BOOLEAN : RunCheckStaged(r, ok, staged)
  \/ \E r \in Runs, got \in BOOLEAN : RunTryIDE(r, got)
  \/ \E r \in Runs, got \in BOOLEAN : RunTryCLI(r, got)
  \/ \E r \in Runs, got \in BOOLEAN : RunTryAPI(r, got)
  \/ \E r \in Runs, ok \in BOOLEAN : RunCommit(r, ok)
  \/ \E r \in Runs, ok \in BOOLEAN : RunPush(r, ok)

SpecRuns == InitRuns /\ [][NextRuns]_vars

\* Run r is past staging and message generation for its repository and is at
\* the commit or beyond it.
AtCommit(r) == rPc[r] \in {"final", "push"}

\* Run r can take the step its position calls for.
CanStep(r) ==
  CASE rPc[r] = "idle" ->
         ENABLED (\E hasApi, hasRepos \in BOOLEAN : RunStart(r, hasApi, hasRepos))
    [] rPc[r] = "add" -> ENABLED (\E ok \in BOOLEAN : RunStageAll(r, ok))
    [] rPc[r] = "list" ->
         ENABLED (\E ok, staged \in BOOLEAN : RunCheckStaged(r, ok, staged))
    [] rPc[r] = "ide" -> ENABLED (\E got \in BOOLEAN : RunTryIDE(r, got))
    [] rPc[r] = "cli" -> ENABLED (\E got \in BOOLEAN : RunTryCLI(r, got))
    [] rPc[r] = "api" -> ENABLED (\E got \in BOOLEAN : RunTryAPI(r, got))
    [] rPc[r] = "final" -> ENABLED (\E ok \in BOOLEAN : RunCommit(r, ok))
    [] rPc[r] = "push" -> ENABLED (\E ok \in BOOLEAN : RunPush(r, ok))
    [] OTHER -> rPc[r] = "done"

\* C30: generateMessage has no in-progress guard: when the command is invoked
\* again before an earlier run has finished, the new run starts, the runs
\* interleave at every await (whichever run is at an await can go on,
\* wherever the others are), and both can stage, generate a message for, and
\* attempt to commit the same repository.
C30_NoInProgressGuard ==
  \A r \in Runs :
    /\ CanStep(r)
    /\ rPc[r] \notin {"idle", "done"} => rRepo[r] \in Repos
    /\ rPc[r] = "idle" => rRepo[r] = 0

\* Two runs at the commit of the same repository, one of them having
\* committed already.
C30_Witness ==
  \E r1, r2 \in Runs :
    /\ r1 # r2
    /\ rRepo[r1] = rRepo[r2]
    /\ rPc[r1] = "push"
    /\ rPc[r2] = "final"

====
